---------------------------- MODULE Spec2Model ----------------------------
(***************************************************************************)
(* Model of the SKU generator: the cost cipher (utils/costEncoder), the    *)
(* alias resolver and identifier assembler of SKUGeneratorForm, and the    *)
(* history filter of the SKUHistory page.                                  *)
(*                                                                         *)
(* A JavaScript string is modelled as a sequence of one-character strings, *)
(* so that trimming, case folding, digit mapping and substring search are  *)
(* computed character by character as the code computes them.              *)
(***************************************************************************)
EXTENDS Integers, Sequences, FiniteSets, TLC

VARIABLES
    \* utils/costEncoder: one call of encodeCost followed by decodeCost of its
    \* result, then decodeCost of any code string
    cost,                \* the argument of encodeCost (a string or a number)
    encoded,             \* the value encodeCost returned
    decoded,             \* the value the last decodeCost call returned
    codeArg,             \* the argument of the last decodeCost call
    costPc,              \* "call" | "encoded" | "decoded" | "redecoded"
    \* SKUGeneratorForm component state
    dropdownData,        \* useState dropdownData: category -> sequence of options
    formData,            \* useState formData: the ten fields
    isLoading,           \* useState isLoading of the form
    error,               \* useState error of the form: "" stands for null
    skuParts,            \* the `parts` array of the last generateSKU() call
    preview,             \* the string the last render shows: generateSKU()
    \* one call of getAlias against dropdownData
    aliasField,          \* the `field` argument
    aliasValue,          \* the `value` argument
    aliasResult,         \* the value getAlias returned
    aliasPc,             \* "call" | "done"
    \* SKUHistory page state
    submissions,         \* useState submissions
    filteredSubmissions, \* useState filteredSubmissions
    searchQuery,         \* useState searchQuery
    filters,             \* useState filters: the twelve column filters
    historyLoading,      \* useState isLoading of the history page
    historyError,        \* useState error of the history page: "" stands for null
    effectPending,       \* the filter effect is scheduled and has not run yet
    \* one call of fetchDropdownData, from the parsed response on
    rawData,             \* result.data: payload key -> JSON value
    fetched,             \* the DropdownData the call returned
    refetched,           \* transformData applied to each list of `fetched`
    canonPc,             \* "fetch" | "fetched" | "again"
    \* the persisted style counter and the calls of getNextStyleNumber on it
    lastStyleNumber,     \* localStorage item 'lastStyleNumber'
    stylePc,             \* per session: "idle" | "read" (between getItem and setItem)
    lastStyle,           \* per session: the local lastStyle of the call in progress
    issued,              \* the calls that returned, in order: session, item read, item stored, number returned
    overlapped,          \* some call read the item while another call was in progress
    \* SKUGeneratorForm: validation and submission
    hasTriedSubmit,      \* useState hasTriedSubmit
    isSubmitting,        \* useState isSubmitting
    showSuccessModal,    \* useState showSuccessModal
    generatedSKU,        \* useState generatedSKU
    currentUser,         \* the username of the stored session: "" when none is stored
    pending,             \* the submitSKU calls whose await has not continued:
                         \* [call: the payload, promise: "pending" | "resolved" | "rejected"]
    sent,                \* every payload submitSKU was called with, in call order
    toast,               \* the last toast.error message: "" before the first
    \* one call of submitSKU: the hidden iframe, the hidden form, the timers
    attached,            \* the elements of the call that document.body contains: "iframe", "form"
    inputs,              \* the hidden inputs of the form: name -> value
    promise,             \* the promise the call returned: "none" before the call | "pending" | "resolved" | "rejected"
    settled,             \* how many times the promise has settled
    loadTimers,          \* the 100 ms timers set by onload that have not fired
    timeoutPending,      \* the 5000 ms timer has not fired
    iframeEvents         \* the load and error events the iframe has fired

costVars    == <<cost, encoded, decoded, codeArg, costPc>>
formVars    == <<formData, isLoading, error, skuParts, preview>>
aliasVars   == <<aliasField, aliasValue, aliasResult, aliasPc>>
historyVars == <<submissions, filteredSubmissions, searchQuery, filters,
                 historyLoading, historyError, effectPending>>
canonVars   == <<rawData, fetched, refetched, canonPc>>
styleCallVars == <<stylePc, lastStyle, issued, overlapped>>
styleVars   == <<lastStyleNumber, stylePc, lastStyle, issued, overlapped>>
submitVars  == <<hasTriedSubmit, isSubmitting, showSuccessModal, generatedSKU,
                 currentUser, pending, sent, toast>>
iframeVars  == <<attached, inputs, promise, settled, loadTimers, timeoutPending, iframeEvents>>
vars == <<costVars, dropdownData, formVars, aliasVars, historyVars, canonVars,
          styleVars, submitVars, iframeVars>>

-----------------------------------------------------------------------------
(* Bounds of the model *)

\* number arguments of encodeCost range over 0..MaxCost (plus the listed samples)
MaxCost == 1100
\* decimal-string arguments carry up to MaxLeadingZeros leading zeros
MaxLeadingZeros == 1

-----------------------------------------------------------------------------
(* JavaScript strings *)

EmptyStr == << >>

DigitChars == <<"0", "1", "2", "3", "4", "5", "6", "7", "8", "9">>
UpperChars == <<"A", "B", "C", "D", "E", "F", "G", "H", "I", "J", "K", "L", "M",
                "N", "O", "P", "Q", "R", "S", "T", "U", "V", "W", "X", "Y", "Z">>
LowerChars == <<"a", "b", "c", "d", "e", "f", "g", "h", "i", "j", "k", "l", "m",
                "n", "o", "p", "q", "r", "s", "t", "u", "v", "w", "x", "y", "z">>

IsDigit(c) == \E i \in 1..10 : DigitChars[i] = c
DigitValue(c) == (CHOOSE i \in 1..10 : DigitChars[i] = c) - 1
IsSpace(c) == c = " "

\* the case mappings of the ASCII letters, as lookup tables
LowerOf == [c \in {UpperChars[i] : i \in 1..26} |->
               LowerChars[CHOOSE i \in 1..26 : UpperChars[i] = c]]
UpperOf == [c \in {LowerChars[i] : i \in 1..26} |->
               UpperChars[CHOOSE i \in 1..26 : LowerChars[i] = c]]
LowerChar(c) == IF c \in DOMAIN LowerOf THEN LowerOf[c] ELSE c
UpperChar(c) == IF c \in DOMAIN UpperOf THEN UpperOf[c] ELSE c

\* String.prototype.toLowerCase / toUpperCase
toLowerCase(s) == [i \in 1..Len(s) |-> LowerChar(s[i])]
toUpperCase(s) == [i \in 1..Len(s) |-> UpperChar(s[i])]

RECURSIVE trimStart(_)
trimStart(s) ==
    IF s /= EmptyStr /\ IsSpace(Head(s)) THEN trimStart(Tail(s)) ELSE s
RECURSIVE trimEnd(_)
trimEnd(s) ==
    IF s /= EmptyStr /\ IsSpace(s[Len(s)])
    THEN trimEnd(SubSeq(s, 1, Len(s) - 1)) ELSE s
\* String.prototype.trim
trim(s) == trimEnd(trimStart(s))

\* String.prototype.includes
includes(s, q) ==
    \E i \in 0..(Len(s) - Len(q)) : SubSeq(s, i + 1, i + Len(q)) = q

\* Array.prototype.join over an array of strings
RECURSIVE join(_, _)
join(parts, sep) ==
    IF parts = << >> THEN EmptyStr
    ELSE IF Len(parts) = 1 THEN parts[1]
    ELSE parts[1] \o sep \o join(Tail(parts), sep)

-----------------------------------------------------------------------------
(* JavaScript numbers, as far as the cost cipher needs them: NaN, or the    *)
(* exact decimal num/den with den a power of ten.                           *)

NaN == [isNaN |-> TRUE, num |-> 0, den |-> 1]
Num(n, d) == [isNaN |-> FALSE, num |-> n, den |-> d]

RECURSIVE Pow10(_)
Pow10(k) == IF k = 0 THEN 1 ELSE 10 * Pow10(k - 1)

RECURSIVE DigitsValue(_)
\* the value of a sequence of decimal digits (0 for the empty sequence)
DigitsValue(ds) ==
    IF ds = EmptyStr THEN 0
    ELSE 10 * DigitsValue(SubSeq(ds, 1, Len(ds) - 1)) + DigitValue(ds[Len(ds)])

RECURSIVE TakeDigits(_)
\* the longest prefix of s made of decimal digits
TakeDigits(s) ==
    IF s /= EmptyStr /\ IsDigit(Head(s)) THEN <<Head(s)>> \o TakeDigits(Tail(s))
    ELSE EmptyStr

\* parseFloat: leading white space is skipped, then the longest prefix of the
\* form [+-] digits [. digits] is read; NaN when that prefix has no digit.
\* (Exponents and "Infinity" are outside the alphabet of the modelled inputs.)
parseFloat(s) ==
    LET t        == trimStart(s)
        signed   == t /= EmptyStr /\ Head(t) \in {"+", "-"}
        negative == signed /\ Head(t) = "-"
        body     == IF signed THEN Tail(t) ELSE t
        intPart  == TakeDigits(body)
        rest     == SubSeq(body, Len(intPart) + 1, Len(body))
        fracPart == IF rest /= EmptyStr /\ Head(rest) = "."
                    THEN TakeDigits(Tail(rest)) ELSE EmptyStr
        mag      == DigitsValue(intPart \o fracPart)
    IN  IF Len(intPart) + Len(fracPart) = 0 THEN NaN
        ELSE Num(IF negative THEN 0 - mag ELSE mag, Pow10(Len(fracPart)))

\* Math.round: the integer nearest to x, ties towards +Infinity
MathRound(x) == (2 * x.num + x.den) \div (2 * x.den)

RECURSIVE NatToString(_)
NatToString(n) ==
    IF n < 10 THEN <<DigitChars[n + 1]>>
    ELSE NatToString(n \div 10) \o <<DigitChars[(n % 10) + 1]>>
\* Number.prototype.toString of an integer
IntToString(n) == IF n < 0 THEN <<"-">> \o NatToString(0 - n) ELSE NatToString(n)

\* parseInt(s, 10) of a string of decimal digits; NaN for the empty string
parseInt10(s) ==
    LET ds == TakeDigits(trimStart(s))
    IN  IF ds = EmptyStr THEN NaN ELSE Num(DigitsValue(ds), 1)

-----------------------------------------------------------------------------
(* utils/costEncoder: the CRAZY WOMAN cipher *)

CRAZY_WOMAN_MAP ==
    ("0" :> "C") @@ ("1" :> "R") @@ ("2" :> "A") @@ ("3" :> "Z") @@ ("4" :> "Y") @@
    ("5" :> "W") @@ ("6" :> "O") @@ ("7" :> "M") @@ ("8" :> "A") @@ ("9" :> "N")

\* the loop body with a character outside the table kept as it is
EncodeChar_KeepUnknown(digit) ==
    IF digit \in DOMAIN CRAZY_WOMAN_MAP THEN <<CRAZY_WOMAN_MAP[digit]>> ELSE <<digit>>

\* the loop body of encodeCost: CRAZY_WOMAN_MAP[digit] || ''
EncodeChar(digit) ==
    IF digit \in DOMAIN CRAZY_WOMAN_MAP THEN <<CRAZY_WOMAN_MAP[digit]>> ELSE EmptyStr

RECURSIVE EncodeChars(_)
\* for (const digit of costString) encoded += ...
EncodeChars(costString) ==
    IF costString = EmptyStr THEN EmptyStr
    ELSE EncodeChar(Head(costString)) \o EncodeChars(Tail(costString))

\* A cost argument: typeof c = "string" (c.str) or "number" (c.num)
StrArg(s) == [type |-> "string", str |-> s, num |-> NaN]
NumArg(x) == [type |-> "number", str |-> EmptyStr, num |-> x]

\* const numericCost = typeof cost === 'string' ? parseFloat(cost) : cost
NumericCost(c) == IF c.type = "string" THEN parseFloat(c.str) ELSE c.num

\* a run of k zero digits
RECURSIVE Zeros(_)
Zeros(k) == IF k = 0 THEN EmptyStr ELSE <<"0">> \o Zeros(k - 1)

InvalidCostCode == <<"-", "-", "-">>

\* encodeCost with the rounded cost left-padded with zeros to three digits
\* before the digits are mapped (5 -> CCW)
encodeCost_PadTo3(c) ==
    LET numericCost == NumericCost(c)
    IN  IF numericCost.isNaN THEN InvalidCostCode
        ELSE LET roundedCost == MathRound(numericCost)
                 costString  == IntToString(roundedCost)
                 padded      == IF Len(costString) < 3
                                THEN Zeros(3 - Len(costString)) \o costString
                                ELSE costString
             IN  EncodeChars(padded)

encodeCost(c) ==
    LET numericCost == NumericCost(c)
    IN  IF numericCost.isNaN THEN InvalidCostCode
        ELSE LET roundedCost == MathRound(numericCost)
                 costString  == IntToString(roundedCost)
             IN  EncodeChars(costString)

reverseMap ==
    ("C" :> "0") @@ ("R" :> "1") @@ ("A" :> "2") @@ ("Z" :> "3") @@ ("Y" :> "4") @@
    ("W" :> "5") @@ ("O" :> "6") @@ ("M" :> "7") @@ ("N" :> "9")

\* the decoder with the letter A read as the digit 8 instead of 2
DecodeChar_AIs8(char) ==
    IF char = "A" THEN "8"
    ELSE IF char \in DOMAIN reverseMap THEN reverseMap[char] ELSE "0"

\* the loop body of decodeCost: reverseMap[char] || '0'
DecodeChar(char) == IF char \in DOMAIN reverseMap THEN reverseMap[char] ELSE "0"

decodeCost(code) ==
    LET up == toUpperCase(code)
    IN  parseInt10([i \in 1..Len(up) |-> DecodeChar(up[i])])

-----------------------------------------------------------------------------
(* The arguments encodeCost is called with *)

\* the examples of the documentation and the ends of the digit-count ranges
SampleCosts == {1500, 9999, 10000, 99999, 100000, 999999}
\* costs with a fractional part, as num/den
FractionalCosts == {Num(4, 10), Num(5, 10), Num(125, 10), Num(9994, 10),
                    Num(9995, 10), Num(99994, 10)}
\* integers also passed as decimal strings, with and without leading zeros
StringCosts == {0, 5, 8, 42, 100, 500, 1500, 9999}
\* strings a text field can deliver that are no plain decimal integer
OtherCostStrings == {EmptyStr, <<"a", "b", "c">>, <<"1", "2", ".", "5">>,
                     <<" ", "4", "2">>, <<"9", "9", "9", ".", "5">>,
                     <<" ">>, <<"-">>, <<".">>, <<"-", "5">>, <<"+", "7">>,
                     <<".", "5">>, <<"5", "x">>, <<"x", "5">>,
                     <<"-", "1", "2", ".", "5">>}
\* numbers that are no non-negative decimal: NaN and the negative costs
OtherCostNumbers == {NaN, Num(0 - 5, 1), Num(0 - 25, 10), Num(0 - 4, 10),
                     Num(0 - 1500, 1)}

CostArgs ==
    {NumArg(Num(n, 1)) : n \in (0..MaxCost) \cup SampleCosts}
    \cup {NumArg(x) : x \in FractionalCosts}
    \cup {StrArg(Zeros(k) \o NatToString(n)) :
              k \in 0..MaxLeadingZeros, n \in StringCosts}
    \cup {StrArg(s) : s \in OtherCostStrings}
    \cup {NumArg(x) : x \in OtherCostNumbers}

\* the characters code strings are built from: the nine letters of reverseMap,
\* a lower-case letter, a letter and a digit outside the table
CodeChars == {"C", "R", "A", "Z", "Y", "W", "O", "M", "N", "a", "x", "8"}
\* the arguments decodeCost is called with: every string of up to two code
\* characters and the examples of the documentation
CodeStrings ==
    {EmptyStr} \cup {<<a>> : a \in CodeChars} \cup {<<a, b>> : a, b \in CodeChars}
    \cup {<<"C", "R", "C", "C">>, <<"R", "A", "W", "C">>, <<"r", "a", "w", "c">>,
          <<"N", "n", "N", "n">>, <<"-", "-", "-">>, <<"b", "Z", " ", "7">>}

CostIdle ==
    /\ cost = NumArg(Num(0, 1))
    /\ encoded = EmptyStr
    /\ decoded = NaN
    /\ codeArg = EmptyStr
    /\ costPc = "idle"

InitCost ==
    /\ cost \in CostArgs
    /\ encoded = EmptyStr
    /\ decoded = NaN
    /\ codeArg = EmptyStr
    /\ costPc = "call"

\* encoded = encodeCost(cost)
EncodeCost ==
    /\ costPc = "call"
    /\ encoded' = encodeCost(cost)
    /\ costPc' = "encoded"
    /\ UNCHANGED <<cost, decoded, codeArg>>

\* decoded = decodeCost(encoded)
DecodeCost ==
    /\ costPc = "encoded"
    /\ codeArg' = encoded
    /\ decoded' = decodeCost(encoded)
    /\ costPc' = "decoded"
    /\ UNCHANGED <<cost, encoded>>

\* decoded = decodeCost(s), for any code string s
DecodeCode ==
    /\ costPc = "decoded"
    /\ \E s \in CodeStrings :
          /\ codeArg' = s
          /\ decoded' = decodeCost(s)
    /\ costPc' = "redecoded"
    /\ UNCHANGED <<cost, encoded>>

-----------------------------------------------------------------------------
(* SKUGeneratorForm: option data, alias resolution, identifier assembly *)

Categories == {"productGroups", "productCategories", "colors", "sizes",
               "locations", "fabrics", "natures", "vendorCodes"}

\* interface FormData, in declaration order
FieldNames == <<"productGroup", "productCategory", "color", "size", "style",
                "location", "fabric", "nature", "vendorCode", "cost">>

\* A DropdownOption {value, label, alias?}; an absent alias and the alias ''
\* are both falsy and both modelled as the empty string.
Option(v, l, a) == [value |-> v, label |-> l, alias |-> a]

\* HARDCODED_ALIASES: per category, the set of <<key, alias>> entries
HARDCODED_ALIASES ==
    [productGroups |-> {<<<<"k", "u", "r", "t", "a", "s", "e", "t">>, <<"K", "T">>>>, <<<<"k", "u", "r", "t", "a", " ", "s", "e", "t">>, <<"K", "T">>>>, <<<<"k", "u", "r", "t", "a">>, <<"K", "U">>>>},
     natures       |-> {<<<<"p", "r", "i", "n", "t", "e", "d">>, <<"P", "R">>>>, <<<<"s", "o", "l", "i", "d">>, <<"S", "L">>>>, <<<<"e", "m", "b", "r", "o", "i", "d", "e", "r", "y">>, <<"E", "M">>>>},
     colors        |-> {<<<<"b", "l", "a", "c", "k">>, <<"B", "K">>>>, <<<<"w", "h", "i", "t", "e">>, <<"W", "H">>>>, <<<<"r", "e", "d">>, <<"R", "D">>>>,
                        <<<<"b", "l", "u", "e">>, <<"B", "L">>>>, <<<<"g", "r", "e", "e", "n">>, <<"G", "R">>>>, <<<<"y", "e", "l", "l", "o", "w">>, <<"Y", "L">>>>,
                        <<<<"p", "i", "n", "k">>, <<"P", "K">>>>}]

\* field in HARDCODED_ALIASES && HARDCODED_ALIASES[field][normalizedValue]
HasHardcoded(field, normalizedValue) ==
    /\ field \in DOMAIN HARDCODED_ALIASES
    /\ \E e \in HARDCODED_ALIASES[field] : e[1] = normalizedValue /\ e[2] /= EmptyStr
Hardcoded(field, normalizedValue) ==
    (CHOOSE e \in HARDCODED_ALIASES[field] : e[1] = normalizedValue)[2]

\* the predicate of options.find(...) comparing the option's value only
OptionMatches_ValueOnly(opt, normalizedValue) ==
    toLowerCase(trim(opt.value)) = normalizedValue

\* the predicate of options.find(...) in getAlias
OptionMatches(opt, normalizedValue) ==
    \/ toLowerCase(trim(opt.value)) = normalizedValue
    \/ toLowerCase(trim(opt.label)) = normalizedValue

\* Array.prototype.find: the index of the first matching option, 0 when none
FindOption(options, normalizedValue) ==
    IF \E i \in 1..Len(options) : OptionMatches(options[i], normalizedValue)
    THEN CHOOSE i \in 1..Len(options) :
            /\ OptionMatches(options[i], normalizedValue)
            /\ \A j \in 1..(i - 1) : ~OptionMatches(options[j], normalizedValue)
    ELSE 0

\* getAlias without its first line, if (!value) return ""
getAlias_NoEmptyCheck(dd, field, value) ==
    LET options         == dd[field]
        normalizedValue == toLowerCase(trim(value))
        found           == FindOption(options, normalizedValue)
    IN  IF Len(options) = 0 THEN value
        ELSE IF found /= 0 /\ options[found].alias /= EmptyStr
             THEN options[found].alias
        ELSE IF HasHardcoded(field, normalizedValue)
             THEN Hardcoded(field, normalizedValue)
        ELSE value

getAlias(dd, field, value) ==
    IF value = EmptyStr THEN EmptyStr
    ELSE LET options         == dd[field]
             normalizedValue == toLowerCase(trim(value))
             found           == FindOption(options, normalizedValue)
         IN  IF Len(options) = 0 THEN value
             ELSE IF found /= 0 /\ options[found].alias /= EmptyStr
                  THEN options[found].alias
             ELSE IF HasHardcoded(field, normalizedValue)
                  THEN Hardcoded(field, normalizedValue)
             ELSE value

\* a || b on strings
Or(a, b) == IF a /= EmptyStr THEN a ELSE b

Dashes2 == <<"-", "-">>
Dashes3 == <<"-", "-", "-">>
Dashes4 == <<"-", "-", "-", "-">>
Dashes6 == <<"-", "-", "-", "-", "-", "-">>

\* const encodedCost = formData.cost ? encodeCost(formData.cost) : "----"
EncodedCost(fd) ==
    IF fd.cost /= EmptyStr THEN encodeCost(StrArg(fd.cost)) ELSE Dashes4

\* the first token falling back to the product group alias instead of the raw
\* product group
FirstPart_AliasFallback(fd, dd) ==
    LET productCategoryAlias == getAlias(dd, "productCategories", fd.productCategory)
        productGroupAlias    == getAlias(dd, "productGroups", fd.productGroup)
    IN  IF productCategoryAlias /= EmptyStr /\ productGroupAlias /= EmptyStr
        THEN productCategoryAlias \o productGroupAlias
        ELSE Or(productGroupAlias, Dashes3)

\* const firstPart = (productCategoryAlias && productGroupAlias) ? ... : ...
FirstPart(fd, dd) ==
    LET productCategoryAlias == getAlias(dd, "productCategories", fd.productCategory)
        productGroupAlias    == getAlias(dd, "productGroups", fd.productGroup)
    IN  IF productCategoryAlias /= EmptyStr /\ productGroupAlias /= EmptyStr
        THEN productCategoryAlias \o productGroupAlias
        ELSE Or(fd.productGroup, Dashes3)

\* the vendor token without the alias lookup: formData.vendorCode || "------"
VendorPart_Raw(fd, dd) == Or(fd.vendorCode, Dashes6)

\* the token generateSKU computes for the vendor code
VendorPart(fd, dd) ==
    Or(getAlias(dd, "vendorCodes", fd.vendorCode), Or(fd.vendorCode, Dashes6))

\* the size token with the three-dash placeholder of the other fields
SizePart_ThreeDashes(fd, dd) == Or(fd.size, Dashes3)

\* the token generateSKU computes for the size
SizePart(fd, dd) == Or(fd.size, Dashes2)

\* the `parts` array of generateSKU, element by element
SkuParts(fd, dd) ==
    LET colorAlias    == getAlias(dd, "colors", fd.color)
        fabricAlias   == getAlias(dd, "fabrics", fd.fabric)
        natureAlias   == getAlias(dd, "natures", fd.nature)
        locationAlias == getAlias(dd, "locations", fd.location)
    IN  << FirstPart(fd, dd),
           Or(colorAlias, Or(fd.color, Dashes3)),
           SizePart(fd, dd),
           Or(fd.style, Dashes3),
           Or(locationAlias, Or(fd.location, Dashes3)),
           Or(locationAlias, Or(fd.location, Dashes3)),
           Or(fabricAlias, Or(fd.fabric, Dashes3)),
           Or(natureAlias, Or(fd.nature, Dashes3)),
           VendorPart(fd, dd),
           EncodedCost(fd) >>

\* the field each element of `parts` is computed from ("first": the combined
\* product category / product group token)
SkuPartFields == <<"first", "color", "size", "style", "location", "location",
                   "fabric", "nature", "vendorCode", "cost">>

\* return parts.join("-")
generateSKU(fd, dd) == join(SkuParts(fd, dd), <<"-">>)

-----------------------------------------------------------------------------
(* Option data the sheet can deliver (already canonical: every value is      *)
(* non-empty), and the values a field can be given                           *)

NoAlias == EmptyStr

\* useState initial dropdownData: every category empty
NoData == [c \in Categories |-> << >>]

\* a sheet with aliases on most options
SheetData ==
    [productGroups     |-> << Option(<<"k", "u", "r", "t", "a", "-", "s", "e", "t">>, <<"K", "u", "r", "t", "a", " ", "S", "e", "t">>, <<"K", "T">>),
                              Option(<<"k", "u", "r", "t", "a">>, <<"K", "u", "r", "t", "a">>, NoAlias),
                              Option(<<"t", "o", "p">>, <<"T", "o", "p">>, <<"T", "P">>) >>,
     productCategories |-> << Option(<<"m", "e", "n">>, <<"M", "e", "n">>, <<"M">>) >>,
     colors            |-> << Option(<<"r", "e", "d">>, <<"R", "e", "d">>, NoAlias),
                              Option(<<"t", "e", "a", "l">>, <<"T", "e", "a", "l">>, <<"T", "L">>) >>,
     sizes             |-> << Option(<<"X", "L">>, <<"X", "L">>, <<"X">>) >>,
     locations         |-> << Option(<<"d", "e", "l", "h", "i">>, <<"D", "e", "l", "h", "i">>, <<"D", "L">>) >>,
     fabrics           |-> << Option(<<"c", "o", "t", "t", "o", "n">>, <<"C", "o", "t", "t", "o", "n">>, NoAlias) >>,
     natures           |-> << Option(<<"s", "o", "l", "i", "d">>, <<"S", "o", "l", "i", "d">>, <<"S", "D">>) >>,
     vendorCodes       |-> << Option(<<"v", "0", "1">>, <<"V", "e", "n", "d", "o", "r", " ", "1">>, <<"V", "N", "0", "0", "0", "1">>) >>]

\* a sheet that is still being filled in: categories without options, options
\* without aliases, a duplicated option
PartialData ==
    [productGroups     |-> << Option(<<"k", "u", "r", "t", "a">>, <<"K", "u", "r", "t", "a">>, NoAlias),
                              Option(<<"k", "u", "r", "t", "a">>, <<"K", "u", "r", "t", "a", " ", "B">>, <<"K", "B">>) >>,
     productCategories |-> << Option(<<"m", "e", "n">>, <<"M", "e", "n">>, NoAlias) >>,
     colors            |-> << >>,
     sizes             |-> << Option(<<"X", "L">>, <<"X", "L">>, NoAlias) >>,
     locations         |-> << Option(<<"d", "e", "l", "h", "i">>, <<"D", "e", "l", "h", "i">>, NoAlias) >>,
     fabrics           |-> << Option(<<"c", "o", "t", "t", "o", "n">>, <<"C", "o", "t", "t", "o", "n">>, <<"C", "T">>) >>,
     natures           |-> << Option(<<"S", "o", "l", "i", "d", " ">>, <<"s", "o", "l", "i", "d">>, NoAlias) >>,
     vendorCodes       |-> << >>]

\* a sheet whose categories all list the same rows: a row with an alias whose
\* value and label differ, and a row whose cells hold a single blank
KurtaSetOption == Option(<<"k", "u", "r", "t", "a", "-", "s", "e", "t">>, <<"K", "u", "r", "t", "a", " ", "S", "e", "t">>, <<"K", "T">>)
BlankOption == Option(<<" ">>, <<" ">>, <<"B", "L">>)
AliasSheet == [c \in Categories |-> <<BlankOption, KurtaSetOption>>]

SheetPayloads == {SheetData, PartialData}

\* the values updateField is called with, per field; the cost field is an
\* <input type="number">, which delivers '' or a valid decimal number
FieldValues ==
    [productGroup    |-> {EmptyStr, <<"k", "u", "r", "t", "a">>, <<"K", "u", "r", "t", "a", " ", "S", "e", "t">>},
     productCategory |-> {EmptyStr, <<"m", "e", "n">>},
     color           |-> {EmptyStr, <<"r", "e", "d">>},
     size            |-> {EmptyStr, <<"X", "L">>},
     style           |-> {EmptyStr, <<"1", "0", "0">>, <<"A", "-", "1">>},
     location        |-> {EmptyStr, <<"d", "e", "l", "h", "i">>},
     fabric          |-> {EmptyStr, <<"c", "o", "t", "t", "o", "n">>},
     nature          |-> {EmptyStr, <<"s", "o", "l", "i", "d">>},
     vendorCode      |-> {EmptyStr, <<"v", "0", "1">>},
     cost            |-> {EmptyStr, <<"5", "0", "0">>, <<"1", "5", "0", "0">>, <<"1", "2", ".", "5">>}]

\* the fields edited through a Combobox, which is disabled while loading
ComboboxFields == {"productGroup", "productCategory", "color", "size",
                   "location", "fabric", "nature", "vendorCode"}

\* the values getAlias is called with
AliasValues ==
    {EmptyStr, <<"k", "u", "r", "t", "a">>, <<"K", "u", "r", "t", "a">>, <<" ", "k", "u", "r", "t", "a", " ">>, <<"K", "u", "r", "t", "a", " ", "S", "e", "t">>, <<"k", "u", "r", "t", "a", "-", "s", "e", "t">>,
     <<" ", "K", "U", "R", "T", "A", "-", "S", "E", "T">>, <<" ", "k", "u", "r", "t", "a", " ", "S", "E", "T">>, <<"u", "n", "k", "n", "o", "w", "n", "-", "t", "h", "i", "n", "g">>, <<"r", "e", "d">>, <<"s", "o", "l", "i", "d">>, <<"S", "o", "l", "i", "d">>, <<"X", "L">>, <<"m", "e", "n">>,
     <<"v", "0", "1">>, <<"c", "o", "t", "t", "o", "n">>, <<"d", "e", "l", "h", "i">>, <<"t", "o", "p">>}

-----------------------------------------------------------------------------
(* The form component: loading the option data, editing, rendering *)

\* useState initial formData; style holds the first issued style number
InitialFormData ==
    [productGroup |-> EmptyStr, productCategory |-> EmptyStr, color |-> EmptyStr,
     size |-> EmptyStr, style |-> <<"1", "0", "0">>, location |-> EmptyStr, fabric |-> EmptyStr,
     nature |-> EmptyStr, vendorCode |-> EmptyStr, cost |-> EmptyStr]

NoError == ""

\* a render that shows the preview of an earlier render again
Render_Cached(fd, dd) == UNCHANGED <<skuParts, preview>>

\* every render evaluates {generateSKU()} for the preview: skuParts is the
\* `parts` array of that call, preview its return value parts.join('-')
Render(fd, dd) ==
    /\ skuParts' = SkuParts(fd, dd)
    /\ preview' = join(skuParts', <<"-">>)

FormIdle ==
    /\ formData = InitialFormData
    /\ isLoading = FALSE
    /\ error = NoError
    /\ skuParts = SkuParts(InitialFormData, NoData)
    /\ preview = generateSKU(InitialFormData, NoData)

\* the mounted component: the mount effect has called loadDropdownData
InitForm ==
    /\ formData = InitialFormData
    /\ isLoading = TRUE
    /\ error = NoError
    /\ skuParts = SkuParts(InitialFormData, NoData)
    /\ preview = generateSKU(InitialFormData, NoData)

\* loadDropdownData, from the resolution of fetchDropdownData on
LoadDropdownDataSuccess(data) ==
    /\ isLoading
    /\ dropdownData' = data
    /\ isLoading' = FALSE
    /\ Render(formData, data)
    /\ UNCHANGED <<formData, error>>

\* loadDropdownData, from the rejection of fetchDropdownData on
LoadDropdownDataFailure ==
    /\ isLoading
    /\ error' = "Failed to load dropdown data"
    /\ isLoading' = FALSE
    /\ Render(formData, dropdownData)
    /\ UNCHANGED <<formData, dropdownData>>

\* the Retry button of the error alert: loadDropdownData up to its await
RetryLoad ==
    /\ error /= NoError
    /\ ~isLoading
    /\ isLoading' = TRUE
    /\ error' = NoError
    /\ Render(formData, dropdownData)
    /\ UNCHANGED <<formData, dropdownData>>

updateField(field, value) ==
    /\ field \in ComboboxFields => ~isLoading
    /\ formData' = [formData EXCEPT ![field] = value]
    /\ Render(formData', dropdownData)
    /\ UNCHANGED <<dropdownData, isLoading, error>>

-----------------------------------------------------------------------------
(* One call of getAlias *)

AliasIdle ==
    /\ aliasField = "productGroups"
    /\ aliasValue = EmptyStr
    /\ aliasResult = EmptyStr
    /\ aliasPc = "idle"

InitAlias ==
    /\ aliasField \in Categories
    /\ aliasValue \in AliasValues
    /\ aliasResult = EmptyStr
    /\ aliasPc = "call"

\* aliasResult = getAlias(aliasField, aliasValue)
GetAlias ==
    /\ aliasPc = "call"
    /\ aliasResult' = getAlias(dropdownData, aliasField, aliasValue)
    /\ aliasPc' = "done"
    /\ UNCHANGED <<aliasField, aliasValue>>

-----------------------------------------------------------------------------
(* SKUHistory: the filter effect *)

\* the keys of the `filters` state, in declaration order
FilterFields == <<"sku", "productGroup", "productCategory", "color", "size",
                  "style", "location", "fabric", "nature", "vendorCode", "cost",
                  "createdBy">>

\* the fields the global search looks at
SearchFields == <<"sku", "productGroup", "productCategory", "color">>

\* a field the record does not carry read as the text "undefined"
FieldOf_AsText(sub, f) ==
    IF f \in DOMAIN sub THEN sub[f] ELSE <<"u", "n", "d", "e", "f", "i", "n", "e", "d">>

\* sub.f?.toLowerCase() || ''  and  String(sub.f || ''): a field the record
\* does not carry reads as undefined and compares as the empty string
FieldOf(sub, f) == IF f \in DOMAIN sub THEN sub[f] ELSE EmptyStr

\* the global search predicate looking at the size column as well
MatchesQuery_WithSize(sub, query) ==
    \/ includes(toLowerCase(FieldOf(sub, "sku")), query)
    \/ includes(toLowerCase(FieldOf(sub, "productGroup")), query)
    \/ includes(toLowerCase(FieldOf(sub, "productCategory")), query)
    \/ includes(toLowerCase(FieldOf(sub, "color")), query)
    \/ includes(toLowerCase(FieldOf(sub, "size")), query)

\* the predicate of the global search filter
MatchesQuery(sub, query) ==
    \/ includes(toLowerCase(FieldOf(sub, "sku")), query)
    \/ includes(toLowerCase(FieldOf(sub, "productGroup")), query)
    \/ includes(toLowerCase(FieldOf(sub, "productCategory")), query)
    \/ includes(toLowerCase(FieldOf(sub, "color")), query)

\* the column check without lower-casing the filter value
check_CaseSensitive(val, filter) ==
    IF filter = EmptyStr THEN TRUE
    ELSE includes(toLowerCase(val), filter)

\* const check = (val, filter) => ...
check(val, filter) ==
    IF filter = EmptyStr THEN TRUE
    ELSE includes(toLowerCase(val), toLowerCase(filter))

\* the predicate of the column filter
MatchesColumns(sub, flt) ==
    /\ check(FieldOf(sub, "sku"), flt.sku)
    /\ check(FieldOf(sub, "productGroup"), flt.productGroup)
    /\ check(FieldOf(sub, "productCategory"), flt.productCategory)
    /\ check(FieldOf(sub, "color"), flt.color)
    /\ check(FieldOf(sub, "size"), flt.size)
    /\ check(FieldOf(sub, "style"), flt.style)
    /\ check(FieldOf(sub, "location"), flt.location)
    /\ check(FieldOf(sub, "fabric"), flt.fabric)
    /\ check(FieldOf(sub, "nature"), flt.nature)
    /\ check(FieldOf(sub, "vendorCode"), flt.vendorCode)
    /\ check(FieldOf(sub, "cost"), flt.cost)
    /\ check(FieldOf(sub, "createdBy"), flt.createdBy)

\* 1. Global Search
GlobalSearch(subs, sq) ==
    IF trim(sq) /= EmptyStr
    THEN LET query == toLowerCase(sq)
             Keep(sub) == MatchesQuery(sub, query)
         IN  SelectSeq(subs, Keep)
    ELSE subs

\* 2. Column Filters
ColumnFilters(subs, flt) ==
    LET Keep(sub) == MatchesColumns(sub, flt)
    IN  SelectSeq(subs, Keep)

\* the body of the filter effect: the value handed to setFilteredSubmissions
FilterSubmissions(subs, sq, flt) == ColumnFilters(GlobalSearch(subs, sq), flt)

-----------------------------------------------------------------------------
(* The records fetchAllSubmissions can deliver, and what the user can type *)

Rec1 ==
    [sku |-> <<"M", "K", "U", "-", "R", "D">>, productGroup |-> <<"k", "u", "r", "t", "a">>, productCategory |-> <<"m", "e", "n">>,
     color |-> <<"r", "e", "d">>, size |-> <<"X", "L">>, style |-> <<"1", "0", "0">>, location |-> <<"d", "e", "l", "h", "i">>,
     fabric |-> <<"c", "o", "t", "t", "o", "n">>, nature |-> <<"s", "o", "l", "i", "d">>, vendorCode |-> <<"v", "0", "1">>,
     cost |-> <<"5", "0", "0">>, createdBy |-> <<"a", "s", "h", "a">>]
Rec2 ==
    [sku |-> <<"W", "T", "P", "-", "B", "L">>, productGroup |-> <<"T", "o", "p">>, productCategory |-> <<"W", "o", "m", "e", "n">>,
     color |-> <<"B", "l", "u", "e">>, size |-> <<"M">>, style |-> <<"1", "0", "1">>, location |-> <<"P", "u", "n", "e">>,
     fabric |-> <<"s", "i", "l", "k">>, nature |-> <<"p", "r", "i", "n", "t", "e", "d">>, vendorCode |-> <<"v", "0", "2">>,
     cost |-> <<"1", "5", "0", "0">>, createdBy |-> <<"r", "a", "v", "i">>]
\* a row without colour, cost and creator
Rec3 ==
    [sku |-> <<"m", "k", "u", "-", "X", "L">>, productGroup |-> <<"K", "u", "r", "t", "a", " ", "S", "e", "t">>, productCategory |-> <<"m", "e", "n">>,
     size |-> <<"X", "L">>, style |-> <<"1", "0", "2">>, location |-> <<"D", "e", "l", "h", "i">>,
     fabric |-> <<"C", "o", "t", "t", "o", "n">>, nature |-> <<"S", "o", "l", "i", "d">>, vendorCode |-> <<"v", "0", "1">>]

SubmissionLists == { <<Rec1, Rec2, Rec3>>, <<Rec3, Rec1>> }

\* what is typed into the search box
SearchQueries == {EmptyStr, <<" ">>, <<"k", "u">>, <<"K", "U">>, <<"x", "l">>, <<"k", "u", " ">>,
                  <<"d", "e">>}

\* what is typed into each column filter
FilterValues ==
    [sku |-> <<"k", "u">>, productGroup |-> <<"K", "U", "R", "T", "A">>, productCategory |-> <<"m", "e", "n">>,
     color |-> <<"r", "e">>, size |-> <<"x">>, style |-> <<"1", "0">>, location |-> <<"d", "e", "l">>,
     fabric |-> <<"c", "o", "t">>, nature |-> <<"s", "o", "l">>, vendorCode |-> <<"V", "0">>, cost |-> <<"5", "0">>,
     createdBy |-> <<"a", "s", "h">>]

NoFilters == [f \in {FilterFields[i] : i \in 1..Len(FilterFields)} |-> EmptyStr]

-----------------------------------------------------------------------------
(* The history page *)

HistoryIdle ==
    /\ submissions = << >>
    /\ filteredSubmissions = << >>
    /\ searchQuery = EmptyStr
    /\ filters = NoFilters
    /\ historyLoading = FALSE
    /\ historyError = NoError
    /\ effectPending = FALSE

\* the mounted page: both mount effects have run, the fetch is in flight
InitHistory ==
    /\ submissions = << >>
    /\ filteredSubmissions = << >>
    /\ searchQuery = EmptyStr
    /\ filters = NoFilters
    /\ historyLoading = TRUE
    /\ historyError = NoError
    /\ effectPending = FALSE

\* loadSubmissions, from the resolution of fetchAllSubmissions on; the new
\* `submissions` array schedules the filter effect
LoadSubmissionsSuccess(data) ==
    /\ historyLoading
    /\ ~effectPending
    /\ submissions' = data
    /\ filteredSubmissions' = data
    /\ historyLoading' = FALSE
    /\ effectPending' = TRUE
    /\ UNCHANGED <<searchQuery, filters, historyError>>

\* loadSubmissions, from the rejection of fetchAllSubmissions on
LoadSubmissionsFailure ==
    /\ historyLoading
    /\ ~effectPending
    /\ historyError' = "Failed to load SKU history"
    /\ historyLoading' = FALSE
    /\ UNCHANGED <<submissions, filteredSubmissions, searchQuery, filters,
                   effectPending>>

\* the Refresh button (disabled while loading) and the Retry button of the
\* error alert: loadSubmissions up to its await
Refresh ==
    /\ ~historyLoading
    /\ ~effectPending
    /\ historyLoading' = TRUE
    /\ historyError' = NoError
    /\ UNCHANGED <<submissions, filteredSubmissions, searchQuery, filters,
                   effectPending>>

\* onChange of the search box
setSearchQuery(q) ==
    /\ ~effectPending
    /\ q /= searchQuery
    /\ searchQuery' = q
    /\ effectPending' = TRUE
    /\ UNCHANGED <<submissions, filteredSubmissions, filters, historyLoading,
                   historyError>>

\* onChange of a column filter; the filter row is part of the table, which is
\* rendered only when the page is not loading and the list is not empty
handleFilterChange(field, value) ==
    /\ ~effectPending
    /\ ~historyLoading
    /\ Len(filteredSubmissions) > 0
    /\ filters' = [filters EXCEPT ![field] = value]
    /\ effectPending' = TRUE
    /\ UNCHANGED <<submissions, filteredSubmissions, searchQuery, historyLoading,
                   historyError>>

\* the effect on [searchQuery, submissions, filters]
FilterEffect ==
    /\ effectPending
    /\ filteredSubmissions' = FilterSubmissions(submissions, searchQuery, filters)
    /\ effectPending' = FALSE
    /\ UNCHANGED <<submissions, searchQuery, filters, historyLoading, historyError>>

-----------------------------------------------------------------------------
(* fetchDropdownData: from the sheet's JSON payload to the option lists *)

\* the longest array of raw entries the payload carries under one key
MaxRawLen == 2

\* JSON values: result.data[key] and the entries of its arrays. A key the
\* payload does not carry reads as undefined.
Undefined == [kind |-> "undefined"]
RawNull == [kind |-> "null"]
RawNumber(n) == [kind |-> "number", num |-> n]
RawString(s) == [kind |-> "string", str |-> s]
\* an object whose fields (a function from some of value, label, alias) are
\* strings
RawObject(f) == [kind |-> "object", fields |-> f]
RawArray(items) == [kind |-> "array", items |-> items]

\* what a || b tests of a
Truthy(x) ==
    CASE x.kind = "undefined" -> FALSE
      [] x.kind = "null"      -> FALSE
      [] x.kind = "number"    -> x.num /= 0
      [] x.kind = "string"    -> x.str /= EmptyStr
      [] OTHER                -> TRUE

\* a || b on JSON values
JsOr(a, b) == IF Truthy(a) THEN a ELSE b

\* item.key of an object entry; a missing field reads as undefined, which ||
\* and the alias test of getAlias treat like ''
Field(item, key) ==
    IF key \in DOMAIN item.fields THEN item.fields[key] ELSE EmptyStr

\* the map callback with value and label taken from each other's field first
TransformItem_Swapped(item) ==
    IF item.kind = "string" THEN Option(item.str, item.str, NoAlias)
    ELSE IF item.kind = "object"
         THEN Option(Or(Field(item, "label"), Or(Field(item, "value"), EmptyStr)),
                     Or(Field(item, "value"), Or(Field(item, "label"), EmptyStr)),
                     Field(item, "alias"))
    ELSE Option(EmptyStr, EmptyStr, NoAlias)

\* the callback of items.map(...)
TransformItem(item) ==
    IF item.kind = "string" THEN Option(item.str, item.str, NoAlias)
    ELSE IF item.kind = "object"
         THEN Option(Or(Field(item, "value"), Or(Field(item, "label"), EmptyStr)),
                     Or(Field(item, "label"), Or(Field(item, "value"), EmptyStr)),
                     Field(item, "alias"))
    ELSE Option(EmptyStr, EmptyStr, NoAlias)

\* transformData without its trailing .filter(...)
transformData_NoFilter(items) ==
    IF items.kind /= "array" THEN << >>
    ELSE [i \in 1..Len(items.items) |-> TransformItem(items.items[i])]

\* const transformData = (items) => ...
transformData(items) ==
    IF items.kind /= "array" THEN << >>
    ELSE LET mapped      == [i \in 1..Len(items.items) |->
                                TransformItem(items.items[i])]
             NonEmpty(o) == o.value /= EmptyStr
         IN  SelectSeq(mapped, NonEmpty)

\* the two payload keys each category is read from: singular, plural
CategoryKeys ==
    [productGroups     |-> <<"Product Group", "Product Groups">>,
     productCategories |-> <<"Product Category", "Product Categories">>,
     colors            |-> <<"Color", "Colors">>,
     sizes             |-> <<"Size", "Sizes">>,
     locations         |-> <<"Location", "Locations">>,
     fabrics           |-> <<"Fabric", "Fabrics">>,
     natures           |-> <<"Nature", "Natures">>,
     vendorCodes       |-> <<"Vendor Code", "Vendor Codes">>]

PayloadKeys == UNION {{CategoryKeys[c][1], CategoryKeys[c][2]} : c \in Categories}

\* the argument of transformData with the plural key read first
RawFor_PluralFirst(data, c) ==
    JsOr(JsOr(data[CategoryKeys[c][2]], data[CategoryKeys[c][1]]), RawArray(<< >>))

\* result.data['Product Group'] || result.data['Product Groups'] || []
RawFor(data, c) ==
    JsOr(JsOr(data[CategoryKeys[c][1]], data[CategoryKeys[c][2]]), RawArray(<< >>))

\* the object fetchDropdownData returns
fetchDropdownData(data) == [c \in Categories |-> transformData(RawFor(data, c))]

\* an option list read back as the JSON array of its option objects
AsRaw(options) ==
    RawArray([i \in 1..Len(options) |->
                 RawObject([value |-> options[i].value, label |-> options[i].label,
                            alias |-> options[i].alias])])

\* the entries an array of the payload can hold
RawItems ==
    {RawString(<<"S", "i", "l", "k">>), RawString(EmptyStr),
     RawObject([value |-> <<"v", "1">>, label |-> <<"O", "n", "e">>, alias |-> <<"A", "1">>]),
     RawObject([value |-> <<"v", "1">>, label |-> <<"O", "n", "e">>]),
     RawObject([value |-> <<"v", "2">>]),
     RawObject([label |-> <<"T", "w", "o">>, alias |-> <<"A", "2">>]),
     RawObject([value |-> EmptyStr, label |-> <<"T", "h", "r", "e", "e">>]),
     RawObject([value |-> <<"v", "4">>, label |-> EmptyStr, alias |-> EmptyStr]),
     RawObject([alias |-> <<"A", "5">>]),
     RawNull, RawNumber(38)}

RawLists == UNION {[1..n -> RawItems] : n \in 0..MaxRawLen}

\* what the payload can hold under a singular key, and under a plural key
SingularValues ==
    {Undefined, RawNull, RawString(EmptyStr), RawString(<<"n", "/", "a">>),
     RawObject([value |-> <<"v", "1">>])}
        \cup {RawArray(l) : l \in RawLists}
PluralValues ==
    {Undefined, RawNumber(7), RawArray(<< >>),
     RawArray(<<RawString(<<"W", "o", "o", "l">>), RawObject([label |-> <<"T", "w", "o">>, alias |-> <<"A", "2">>])>>)}

CanonIdle ==
    /\ rawData = [k \in PayloadKeys |-> Undefined]
    /\ fetched = NoData
    /\ refetched = NoData
    /\ canonPc = "idle"

\* a parsed response whose data object carries one category, under its
\* singular key, its plural key, both or neither
InitCanon ==
    /\ \E c \in Categories : \E sv \in SingularValues : \E pv \in PluralValues :
          rawData = [k \in PayloadKeys |->
                        IF k = CategoryKeys[c][1] THEN sv
                        ELSE IF k = CategoryKeys[c][2] THEN pv
                        ELSE Undefined]
    /\ fetched = NoData
    /\ refetched = NoData
    /\ canonPc = "fetch"

\* fetched = the object built by the return statement of fetchDropdownData
FetchDropdownData ==
    /\ canonPc = "fetch"
    /\ fetched' = fetchDropdownData(rawData)
    /\ canonPc' = "fetched"
    /\ UNCHANGED <<rawData, refetched>>

\* refetched = transformData applied to each returned list
TransformAgain ==
    /\ canonPc = "fetched"
    /\ refetched' = [c \in Categories |-> transformData(AsRaw(fetched[c]))]
    /\ canonPc' = "again"
    /\ UNCHANGED <<rawData, fetched>>

-----------------------------------------------------------------------------
(* getNextStyleNumber: the style counter persisted in localStorage *)

\* the number of calls of getNextStyleNumber a behaviour follows
MaxStyleCalls == 3

\* localStorage.getItem(key): null when the key is not stored, else a string
NoItem == [has |-> FALSE, str |-> EmptyStr]
Item(s) == [has |-> TRUE, str |-> s]

\* Number.prototype.toString of an integer or NaN
NumberToString(x) == IF x.isNaN THEN <<"N", "a", "N">> ELSE IntToString(x.num)

RECURSIVE padStart(_, _, _)
\* String.prototype.padStart with a one-character filler
padStart(s, targetLength, c) ==
    IF Len(s) >= targetLength THEN s ELSE padStart(<<c>> \o s, targetLength, c)

\* nextNumber without the line that forces it up to 100
NextNumber_NoFloor(last) ==
    IF last.has /\ last.str /= EmptyStr
    THEN LET parsed == parseInt10(last.str)
         IN  IF parsed.isNaN THEN NaN ELSE Num(parsed.num + 1, 1)
    ELSE Num(100, 1)

\* nextNumber without the + 1
NextNumber_NoIncrement(last) ==
    LET n == IF last.has /\ last.str /= EmptyStr
             THEN parseInt10(last.str)
             ELSE Num(100, 1)
    IN  IF ~n.isNaN /\ n.num < 100 THEN Num(100, 1) ELSE n

\* let nextNumber = lastStyle ? parseInt(lastStyle) + 1 : 100;
\* if (nextNumber < 100) nextNumber = 100;
\* (the stored strings of the model are unsigned decimals, for which parseInt
\* with and without a radix agree)
NextNumber(last) ==
    LET n == IF last.has /\ last.str /= EmptyStr
             THEN LET parsed == parseInt10(last.str)
                  IN  IF parsed.isNaN THEN NaN ELSE Num(parsed.num + 1, 1)
             ELSE Num(100, 1)
    IN  IF ~n.isNaN /\ n.num < 100 THEN Num(100, 1) ELSE n

\* the item setItem stores, and the string the call returns
StoredItem(last) == Item(NumberToString(NextNumber(last)))
StyleNumber(last) == padStart(NumberToString(NextNumber(last)), 3, "0")

\* the browser sessions (tabs) of one origin, which share localStorage
Sessions == {1, 2}

\* what the item can hold when a behaviour starts: nothing, or a number an
\* earlier run of this or an older build stored
StoredCounters ==
    {NoItem, Item(<<"7">>), Item(<<"9", "8">>), Item(<<"0", "9", "9">>), Item(<<"9", "9">>), Item(<<"1", "0", "0">>),
     Item(<<"1", "0", "1">>), Item(<<"9", "9", "9">>)}

StyleIdle ==
    /\ lastStyleNumber = NoItem
    /\ stylePc = [s \in Sessions |-> "idle"]
    /\ lastStyle = [s \in Sessions |-> NoItem]
    /\ issued = << >>
    /\ overlapped = FALSE

InitStyle ==
    /\ lastStyleNumber \in StoredCounters
    /\ stylePc = [s \in Sessions |-> "idle"]
    /\ lastStyle = [s \in Sessions |-> NoItem]
    /\ issued = << >>
    /\ overlapped = FALSE

\* the calls begun so far
StyleCalls == Len(issued) + Cardinality({s \in Sessions : stylePc[s] = "read"})

\* const lastStyle = localStorage.getItem('lastStyleNumber');
GetItem(s) ==
    /\ stylePc[s] = "idle"
    /\ StyleCalls < MaxStyleCalls
    /\ lastStyle' = [lastStyle EXCEPT ![s] = lastStyleNumber]
    /\ stylePc' = [stylePc EXCEPT ![s] = "read"]
    /\ overlapped' = (overlapped \/ \E t \in Sessions \ {s} : stylePc[t] = "read")
    /\ UNCHANGED <<lastStyleNumber, issued>>

\* the rest of the call: nextNumber, setItem, return
SetItemAndReturn(s) ==
    /\ stylePc[s] = "read"
    /\ lastStyleNumber' = StoredItem(lastStyle[s])
    /\ issued' = Append(issued, [session |-> s, read |-> lastStyle[s],
                                 stored |-> StoredItem(lastStyle[s]),
                                 number |-> StyleNumber(lastStyle[s])])
    /\ stylePc' = [stylePc EXCEPT ![s] = "idle"]
    /\ UNCHANGED <<lastStyle, overlapped>>

-----------------------------------------------------------------------------
(* SKUGeneratorForm: validation, submission, the style number of the form *)

\* the highest style number a behaviour of the form issues
MaxStyleNumber == 114

\* isFormComplete without the cost field
isFormComplete_NoCost(fd) ==
    /\ fd.productGroup /= EmptyStr
    /\ fd.productCategory /= EmptyStr
    /\ fd.color /= EmptyStr
    /\ fd.size /= EmptyStr
    /\ fd.style /= EmptyStr
    /\ fd.location /= EmptyStr
    /\ fd.fabric /= EmptyStr
    /\ fd.nature /= EmptyStr
    /\ fd.vendorCode /= EmptyStr

\* the truthiness of isFormComplete(): the && chain is truthy exactly when
\* every operand is a non-empty string
isFormComplete(fd) ==
    /\ fd.productGroup /= EmptyStr
    /\ fd.productCategory /= EmptyStr
    /\ fd.color /= EmptyStr
    /\ fd.size /= EmptyStr
    /\ fd.style /= EmptyStr
    /\ fd.location /= EmptyStr
    /\ fd.fabric /= EmptyStr
    /\ fd.nature /= EmptyStr
    /\ fd.vendorCode /= EmptyStr
    /\ fd.cost /= EmptyStr

\* if (!formData.f) missing.push(name), with a trimmed test
Missing_Trimmed(fd, f, name) == IF trim(fd[f]) = EmptyStr THEN <<name>> ELSE << >>

\* if (!formData.f) missing.push(name)
Missing(fd, f, name) == IF fd[f] = EmptyStr THEN <<name>> ELSE << >>

getMissingFields(fd) ==
    Missing(fd, "productGroup", "Product Group")
    \o Missing(fd, "productCategory", "Product Category")
    \o Missing(fd, "color", "Color")
    \o Missing(fd, "size", "Size")
    \o Missing(fd, "style", "Style Number")
    \o Missing(fd, "location", "Location")
    \o Missing(fd, "fabric", "Fabric")
    \o Missing(fd, "nature", "Nature")
    \o Missing(fd, "vendorCode", "Vendor Code")
    \o Missing(fd, "cost", "Cost")

\* getCurrentUser() is null
NoUser == ""
Users == {"asha"}

\* the first argument of submitSKU together with its second, the username
Payload(fd, dd, username) ==
    [sku |-> generateSKU(fd, dd), productGroup |-> fd.productGroup,
     productCategory |-> fd.productCategory, color |-> fd.color, size |-> fd.size,
     style |-> fd.style, location |-> fd.location, fabric |-> fd.fabric,
     nature |-> fd.nature, vendorCode |-> fd.vendorCode, cost |-> fd.cost,
     username |-> username]

\* a reset that puts the first style number of the session back
ResetFormData_SameStyle(style) ==
    [productGroup |-> EmptyStr, productCategory |-> EmptyStr, color |-> EmptyStr,
     size |-> EmptyStr, style |-> <<"1", "0", "0">>, location |-> EmptyStr, fabric |-> EmptyStr,
     nature |-> EmptyStr, vendorCode |-> EmptyStr, cost |-> EmptyStr]

\* the argument of setFormData after a successful submission
ResetFormData(style) ==
    [productGroup |-> EmptyStr, productCategory |-> EmptyStr, color |-> EmptyStr,
     size |-> EmptyStr, style |-> style, location |-> EmptyStr, fabric |-> EmptyStr,
     nature |-> EmptyStr, vendorCode |-> EmptyStr, cost |-> EmptyStr]

\* what the user enters into each field of the form: an option is picked, a
\* cost typed, the issued style number deleted or replaced by a blank
FormValues ==
    [productGroup    |-> {<<"k", "u", "r", "t", "a">>},
     productCategory |-> {<<"m", "e", "n">>},
     color           |-> {<<"r", "e", "d">>},
     size            |-> {<<"X", "L">>},
     style           |-> {EmptyStr, <<" ">>},
     location        |-> {<<"d", "e", "l", "h", "i">>},
     fabric          |-> {<<"c", "o", "t", "t", "o", "n">>},
     nature          |-> {<<"s", "o", "l", "i", "d">>},
     vendorCode      |-> {<<"v", "0", "1">>},
     cost            |-> {<<"5", "0", "0">>}]

SubmitIdle ==
    /\ hasTriedSubmit = FALSE
    /\ isSubmitting = FALSE
    /\ showSuccessModal = FALSE
    /\ generatedSKU = EmptyStr
    /\ currentUser = NoUser
    /\ pending = << >>
    /\ sent = << >>
    /\ toast = ""

\* the mounted form of a logged-in user
InitSubmit ==
    /\ hasTriedSubmit = FALSE
    /\ isSubmitting = FALSE
    /\ showSuccessModal = FALSE
    /\ generatedSKU = EmptyStr
    /\ currentUser \in Users
    /\ pending = << >>
    /\ sent = << >>
    /\ toast = ""

\* every render of the component evaluates the argument of useState, and with
\* it getNextStyleNumber()
StyleRender ==
    /\ NextNumber(lastStyleNumber).num <= MaxStyleNumber
    /\ lastStyleNumber' = StoredItem(lastStyleNumber)

\* a state change renders the component: the preview and the useState argument
Rerender(fd, dd) == Render(fd, dd) /\ StyleRender

\* a promise has settled and the rest of its handleSubmit has not run yet: it
\* runs as a microtask, before any other event is handled
ContinuationDue == \E i \in 1..Len(pending) : pending[i].promise /= "pending"

\* the sequence without its i-th element
RemoveAt(seq, i) == SubSeq(seq, 1, i - 1) \o SubSeq(seq, i + 1, Len(seq))

\* handleSubmit on an incomplete form; setHasTriedSubmit(true) renders when it
\* changes the flag
handleSubmitIncomplete ==
    /\ ~isLoading /\ ~isSubmitting /\ ~showSuccessModal /\ ~ContinuationDue
    /\ ~isFormComplete(formData)
    /\ hasTriedSubmit' = TRUE
    /\ IF hasTriedSubmit THEN UNCHANGED <<skuParts, preview, lastStyleNumber>>
       ELSE Rerender(formData, dropdownData)
    /\ UNCHANGED <<formData, dropdownData, isLoading, error, isSubmitting,
                   showSuccessModal, generatedSKU, currentUser, pending, sent, toast>>

\* handleSubmit on a complete form when no session is stored
handleSubmitNoUser ==
    /\ ~isLoading /\ ~isSubmitting /\ ~showSuccessModal /\ ~ContinuationDue
    /\ isFormComplete(formData)
    /\ currentUser = NoUser
    /\ hasTriedSubmit' = TRUE
    /\ toast' = "Please login first"
    /\ IF hasTriedSubmit THEN UNCHANGED <<skuParts, preview, lastStyleNumber>>
       ELSE Rerender(formData, dropdownData)
    /\ UNCHANGED <<formData, dropdownData, isLoading, error, isSubmitting,
                   showSuccessModal, generatedSKU, currentUser, pending, sent>>

\* the call of submitSKU from a submit control that is not disabled while a
\* call is in flight
handleSubmitSend_NoDisable ==
    /\ ~isLoading /\ ~showSuccessModal /\ ~ContinuationDue
    /\ isFormComplete(formData)
    /\ currentUser /= NoUser
    /\ hasTriedSubmit' = TRUE
    /\ isSubmitting' = TRUE
    /\ pending' = Append(pending, [call |-> Payload(formData, dropdownData, currentUser),
                                   promise |-> "pending"])
    /\ sent' = Append(sent, Payload(formData, dropdownData, currentUser))
    /\ Rerender(formData, dropdownData)
    /\ UNCHANGED <<formData, dropdownData, isLoading, error, showSuccessModal,
                   generatedSKU, currentUser, toast>>

\* handleSubmit on a complete form, up to its await: submitSKU is called
handleSubmitSend ==
    /\ ~isLoading /\ ~isSubmitting /\ ~showSuccessModal /\ ~ContinuationDue
    /\ isFormComplete(formData)
    /\ currentUser /= NoUser
    /\ hasTriedSubmit' = TRUE
    /\ isSubmitting' = TRUE
    /\ pending' = Append(pending, [call |-> Payload(formData, dropdownData, currentUser),
                                   promise |-> "pending"])
    /\ sent' = Append(sent, Payload(formData, dropdownData, currentUser))
    /\ Rerender(formData, dropdownData)
    /\ UNCHANGED <<formData, dropdownData, isLoading, error, showSuccessModal,
                   generatedSKU, currentUser, toast>>

\* the onClick handler of the submit button
handleSubmit ==
    \/ handleSubmitIncomplete
    \/ handleSubmitNoUser
    \/ handleSubmitSend

\* the promise of a submitSKU call settles: resolve() or reject() of the call
\* (the iframe's load or error event, or the timeout)
SubmitSKUSettles(i, outcome) ==
    /\ pending[i].promise = "pending"
    /\ pending' = [pending EXCEPT ![i].promise = outcome]
    /\ UNCHANGED <<formVars, dropdownData, lastStyleNumber, hasTriedSubmit,
                   isSubmitting, showSuccessModal, generatedSKU, currentUser, sent, toast>>

\* handleSubmit from the resolution of submitSKU on: the modal, the reset with
\* a new style number, the finally block; then the render
SubmitResolved ==
    /\ NextNumber(lastStyleNumber).num < MaxStyleNumber
    /\ \E i \in 1..Len(pending) :
          /\ pending[i].promise = "resolved"
          /\ generatedSKU' = pending[i].call.sku
          /\ pending' = RemoveAt(pending, i)
    /\ showSuccessModal' = TRUE
    /\ formData' = ResetFormData(StyleNumber(lastStyleNumber))
    /\ hasTriedSubmit' = FALSE
    /\ isSubmitting' = FALSE
    /\ lastStyleNumber' = StoredItem(StoredItem(lastStyleNumber))
    /\ Render(formData', dropdownData)
    /\ UNCHANGED <<dropdownData, isLoading, error, currentUser, sent, toast>>

\* the rejection path without its finally block
SubmitRejected_NoFinally ==
    /\ \E i \in 1..Len(pending) :
          /\ pending[i].promise = "rejected"
          /\ pending' = RemoveAt(pending, i)
    /\ toast' = "Failed to submit SKU"
    /\ Rerender(formData, dropdownData)
    /\ UNCHANGED <<formData, dropdownData, isLoading, error, hasTriedSubmit,
                   isSubmitting, showSuccessModal, generatedSKU, currentUser, sent>>

\* handleSubmit from the rejection of submitSKU on: the catch and finally blocks
SubmitRejected ==
    /\ \E i \in 1..Len(pending) :
          /\ pending[i].promise = "rejected"
          /\ pending' = RemoveAt(pending, i)
    /\ toast' = "Failed to submit SKU"
    /\ isSubmitting' = FALSE
    /\ Rerender(formData, dropdownData)
    /\ UNCHANGED <<formData, dropdownData, isLoading, error, hasTriedSubmit,
                   showSuccessModal, generatedSKU, currentUser, sent>>

\* onClose of the success modal
CloseModal ==
    /\ showSuccessModal /\ ~ContinuationDue
    /\ showSuccessModal' = FALSE
    /\ Rerender(formData, dropdownData)
    /\ UNCHANGED <<formData, dropdownData, isLoading, error, hasTriedSubmit,
                   isSubmitting, generatedSKU, currentUser, pending, sent, toast>>

\* the stored session is removed while the form is open (logout in another tab)
SessionRemoved ==
    /\ currentUser /= NoUser
    /\ currentUser' = NoUser
    /\ UNCHANGED <<formVars, dropdownData, lastStyleNumber, hasTriedSubmit,
                   isSubmitting, showSuccessModal, generatedSKU, pending, sent, toast>>

-----------------------------------------------------------------------------
(* submitSKU: the hidden iframe, the hidden form and the timers of one call *)

\* the load and error events one iframe fires
MaxIframeEvents == 2

\* resolve() and reject() of a promise that settles again on every call
Settle_Again(outcome) ==
    /\ promise' = outcome
    /\ settled' = settled + 1

\* resolve() and reject(): only the first call settles the promise
Settle(outcome) ==
    IF promise = "pending"
    THEN /\ promise' = outcome
         /\ settled' = settled + 1
    ELSE UNCHANGED <<promise, settled>>

\* a complete form as handleSubmit hands it over, with a given style and cost
SentForm(style, c) ==
    [productGroup |-> <<"k", "u", "r", "t", "a">>, productCategory |-> <<"m", "e", "n">>,
     color |-> <<"r", "e", "d">>, size |-> <<"X", "L">>, style |-> style,
     location |-> <<"d", "e", "l", "h", "i">>, fabric |-> <<"c", "o", "t", "t", "o", "n">>,
     nature |-> <<"s", "o", "l", "i", "d">>, vendorCode |-> <<"v", "0", "1">>, cost |-> c]

\* the { ...data, username } objects submitSKU is called with
SubmitArgs ==
    {Payload(SentForm(style, c), SheetData, u) :
        style \in {<<"1", "0", "0">>, <<"1", "1", "2">>, <<" ">>},
        c \in {<<"5", "0", "0">>, <<"1", "5", "0", "0">>, <<"1", "2", ".", "5">>}, u \in Users}

\* before the call
IframeIdle ==
    /\ attached = {}
    /\ inputs = << >>
    /\ promise = "none"
    /\ settled = 0
    /\ loadTimers = 0
    /\ timeoutPending = FALSE
    /\ iframeEvents = 0

\* submitSKU(data, username), the executor of the promise: the iframe and the
\* form are appended, the form is submitted, the 5000 ms timer is set
CallSubmitSKU(args) ==
    /\ promise = "none"
    /\ attached' = {"iframe", "form"}
    \* input.value = (value || '').toString(), of string values
    /\ inputs' = [key \in DOMAIN args |-> args[key]]
    /\ promise' = "pending"
    /\ timeoutPending' = TRUE
    /\ UNCHANGED <<settled, loadTimers, iframeEvents>>

\* iframe.onload: the 100 ms timer is set
IframeLoad ==
    /\ "iframe" \in attached
    /\ iframeEvents < MaxIframeEvents
    /\ iframeEvents' = iframeEvents + 1
    /\ loadTimers' = loadTimers + 1
    /\ UNCHANGED <<attached, inputs, promise, settled, timeoutPending>>

\* the callback of the 100 ms timer
LoadTimerFires ==
    /\ loadTimers > 0
    /\ loadTimers' = loadTimers - 1
    /\ attached' = {}
    /\ Settle("resolved")
    /\ UNCHANGED <<inputs, timeoutPending, iframeEvents>>

\* iframe.onerror
IframeError ==
    /\ "iframe" \in attached
    /\ iframeEvents < MaxIframeEvents
    /\ iframeEvents' = iframeEvents + 1
    /\ attached' = {}
    /\ Settle("rejected")
    /\ UNCHANGED <<inputs, loadTimers, timeoutPending>>

\* the callback of the 5000 ms timer
TimeoutFires ==
    /\ timeoutPending
    /\ timeoutPending' = FALSE
    /\ attached' = {}
    /\ Settle("resolved")
    /\ UNCHANGED <<inputs, loadTimers, iframeEvents>>

-----------------------------------------------------------------------------
(* Specifications *)

\* encodeCost and decodeCost applied to each argument of CostArgs, and
\* decodeCost applied to each string of CodeStrings
InitSpecCost == InitCost /\ dropdownData = NoData /\ FormIdle /\ AliasIdle /\ HistoryIdle
    /\ CanonIdle
    /\ StyleIdle
    /\ SubmitIdle
    /\ IframeIdle
NextCost ==
    \/ EncodeCost /\ UNCHANGED <<dropdownData, formVars, aliasVars, historyVars, canonVars, styleVars, submitVars, iframeVars>>
    \/ DecodeCost /\ UNCHANGED <<dropdownData, formVars, aliasVars, historyVars, canonVars, styleVars, submitVars, iframeVars>>
    \/ DecodeCode /\ UNCHANGED <<dropdownData, formVars, aliasVars, historyVars, canonVars, styleVars, submitVars, iframeVars>>
SpecCost == InitSpecCost /\ [][NextCost]_vars

\* getAlias applied to each category and value, against each option data
InitSpecAlias ==
    /\ dropdownData \in {NoData, AliasSheet} \cup SheetPayloads
    /\ InitAlias /\ CostIdle /\ FormIdle /\ HistoryIdle
    /\ CanonIdle
    /\ StyleIdle
    /\ SubmitIdle
    /\ IframeIdle
NextAlias ==
    GetAlias /\ UNCHANGED <<dropdownData, costVars, formVars, historyVars, canonVars, styleVars, submitVars, iframeVars>>
SpecAlias == InitSpecAlias /\ [][NextAlias]_vars

\* the form: option data loading, field edits, the rendered preview (the
\* style counter the renders advance is followed in SpecForm)
InitSpecSKU == dropdownData = NoData /\ InitForm /\ CostIdle /\ AliasIdle /\ HistoryIdle
    /\ CanonIdle
    /\ StyleIdle
    /\ SubmitIdle
    /\ IframeIdle
NextSKU ==
    \/ \E data \in SheetPayloads :
          LoadDropdownDataSuccess(data) /\ UNCHANGED <<costVars, aliasVars, historyVars, canonVars, styleVars, submitVars, iframeVars>>
    \/ LoadDropdownDataFailure /\ UNCHANGED <<costVars, aliasVars, historyVars, canonVars, styleVars, submitVars, iframeVars>>
    \/ RetryLoad /\ UNCHANGED <<costVars, aliasVars, historyVars, canonVars, styleVars, submitVars, iframeVars>>
    \/ \E i \in 1..Len(FieldNames) : \E value \in FieldValues[FieldNames[i]] :
          updateField(FieldNames[i], value)
          /\ UNCHANGED <<costVars, aliasVars, historyVars, canonVars, styleVars, submitVars, iframeVars>>
SpecSKU == InitSpecSKU /\ [][NextSKU]_vars

\* the history page: loading, searching, column filters, the filter effect
InitSpecHistory == InitHistory /\ dropdownData = NoData /\ CostIdle /\ FormIdle /\ AliasIdle
    /\ CanonIdle
    /\ StyleIdle
    /\ SubmitIdle
    /\ IframeIdle
NextHistory ==
    \/ \E data \in SubmissionLists :
          LoadSubmissionsSuccess(data)
          /\ UNCHANGED <<dropdownData, costVars, formVars, aliasVars, canonVars, styleVars, submitVars, iframeVars>>
    \/ LoadSubmissionsFailure /\ UNCHANGED <<dropdownData, costVars, formVars, aliasVars, canonVars, styleVars, submitVars, iframeVars>>
    \/ Refresh /\ UNCHANGED <<dropdownData, costVars, formVars, aliasVars, canonVars, styleVars, submitVars, iframeVars>>
    \/ \E q \in SearchQueries :
          setSearchQuery(q) /\ UNCHANGED <<dropdownData, costVars, formVars, aliasVars, canonVars, styleVars, submitVars, iframeVars>>
    \/ \E i \in 1..Len(FilterFields) :
          \E value \in {EmptyStr, FilterValues[FilterFields[i]]} :
             handleFilterChange(FilterFields[i], value)
             /\ UNCHANGED <<dropdownData, costVars, formVars, aliasVars, canonVars, styleVars, submitVars, iframeVars>>
    \/ FilterEffect /\ UNCHANGED <<dropdownData, costVars, formVars, aliasVars, canonVars, styleVars, submitVars, iframeVars>>
SpecHistory == InitSpecHistory /\ [][NextHistory]_vars

\* the form from the arrival of the option data on: editing and submitting.
\* The render at mount has stored 100, the render after loading 101.
InitSpecForm ==
    /\ dropdownData = SheetData
    /\ formData = InitialFormData
    /\ isLoading = FALSE
    /\ error = NoError
    /\ skuParts = SkuParts(InitialFormData, SheetData)
    /\ preview = generateSKU(InitialFormData, SheetData)
    /\ InitSubmit
    /\ lastStyleNumber = StoredItem(Item(InitialFormData.style))
    /\ stylePc = [s \in Sessions |-> "idle"]
    /\ lastStyle = [s \in Sessions |-> NoItem]
    /\ issued = << >>
    /\ overlapped = FALSE
    /\ CostIdle /\ AliasIdle /\ HistoryIdle /\ CanonIdle
    /\ IframeIdle
NextForm ==
    \/ \E i \in 1..Len(FieldNames) : \E value \in FormValues[FieldNames[i]] :
          /\ formData[FieldNames[i]] /= value
          /\ ~showSuccessModal /\ ~ContinuationDue
          /\ updateField(FieldNames[i], value) /\ StyleRender
          /\ UNCHANGED <<costVars, aliasVars, historyVars, canonVars, styleCallVars, submitVars, iframeVars>>
    \/ handleSubmit
       /\ UNCHANGED <<costVars, aliasVars, historyVars, canonVars, styleCallVars, iframeVars>>
    \/ \E i \in 1..Len(pending) : \E outcome \in {"resolved", "rejected"} :
          SubmitSKUSettles(i, outcome)
          /\ UNCHANGED <<costVars, aliasVars, historyVars, canonVars, styleCallVars, iframeVars>>
    \/ SubmitResolved
       /\ UNCHANGED <<costVars, aliasVars, historyVars, canonVars, styleCallVars, iframeVars>>
    \/ SubmitRejected
       /\ UNCHANGED <<costVars, aliasVars, historyVars, canonVars, styleCallVars, iframeVars>>
    \/ CloseModal
       /\ UNCHANGED <<costVars, aliasVars, historyVars, canonVars, styleCallVars, iframeVars>>
    \/ SessionRemoved
       /\ UNCHANGED <<costVars, aliasVars, historyVars, canonVars, styleCallVars, iframeVars>>
SpecForm == InitSpecForm /\ [][NextForm]_vars

\* getNextStyleNumber called from two sessions on one persisted counter
InitSpecStyle ==
    /\ InitStyle /\ dropdownData = NoData
    /\ CostIdle /\ FormIdle /\ AliasIdle /\ HistoryIdle /\ CanonIdle
    /\ SubmitIdle
    /\ IframeIdle
NextStyle ==
    \/ \E s \in Sessions :
          GetItem(s)
          /\ UNCHANGED <<dropdownData, costVars, formVars, aliasVars, historyVars, canonVars, submitVars, iframeVars>>
    \/ \E s \in Sessions :
          SetItemAndReturn(s)
          /\ UNCHANGED <<dropdownData, costVars, formVars, aliasVars, historyVars, canonVars, submitVars, iframeVars>>
SpecStyle == InitSpecStyle /\ [][NextStyle]_vars

\* fetchDropdownData applied to each payload, transformData to its own output
InitSpecCanon ==
    /\ InitCanon /\ dropdownData = NoData
    /\ CostIdle /\ FormIdle /\ AliasIdle /\ HistoryIdle
    /\ StyleIdle
    /\ SubmitIdle
    /\ IframeIdle
NextCanon ==
    \/ FetchDropdownData
       /\ UNCHANGED <<dropdownData, costVars, formVars, aliasVars, historyVars, styleVars, submitVars, iframeVars>>
    \/ TransformAgain
       /\ UNCHANGED <<dropdownData, costVars, formVars, aliasVars, historyVars, styleVars, submitVars, iframeVars>>
SpecCanon == InitSpecCanon /\ [][NextCanon]_vars

\* one call of submitSKU with each of SubmitArgs; a timer that has been set
\* fires after its delay
InitSpecSubmitSKU ==
    /\ IframeIdle /\ dropdownData = NoData
    /\ CostIdle /\ FormIdle /\ AliasIdle /\ HistoryIdle /\ CanonIdle /\ StyleIdle /\ SubmitIdle
LoadTimerStep == LoadTimerFires /\ UNCHANGED <<costVars, dropdownData, formVars, aliasVars, historyVars, canonVars, styleVars, submitVars>>
TimeoutStep == TimeoutFires /\ UNCHANGED <<costVars, dropdownData, formVars, aliasVars, historyVars, canonVars, styleVars, submitVars>>
NextSubmitSKU ==
    \/ \E args \in SubmitArgs : CallSubmitSKU(args) /\ UNCHANGED <<costVars, dropdownData, formVars, aliasVars, historyVars, canonVars, styleVars, submitVars>>
    \/ IframeLoad /\ UNCHANGED <<costVars, dropdownData, formVars, aliasVars, historyVars, canonVars, styleVars, submitVars>>
    \/ IframeError /\ UNCHANGED <<costVars, dropdownData, formVars, aliasVars, historyVars, canonVars, styleVars, submitVars>>
    \/ LoadTimerStep
    \/ TimeoutStep
SpecSubmitSKU ==
    /\ InitSpecSubmitSKU /\ [][NextSubmitSKU]_vars
    /\ WF_vars(LoadTimerStep) /\ WF_vars(TimeoutStep)

-----------------------------------------------------------------------------
(* Properties of the cost cipher, under SpecCost *)

\* the cipher table as the documentation lists it, indexed by digit + 1
CipherLetters == <<"C", "R", "A", "Z", "Y", "W", "O", "M", "A", "N">>

RECURSIVE DigitCount(_)
\* the number of decimal digits of the natural number n
DigitCount(n) == IF n < 10 THEN 1 ELSE 1 + DigitCount(n \div 10)

\* the i-th decimal digit of n, counted from the left
DigitAt(n, i) == (n \div Pow10(DigitCount(n) - i)) % 10

\* the argument is a non-negative integer: a number, or a string of decimal
\* digits (leading zeros allowed)
IsPlainInteger(c) ==
    IF c.type = "number"
    THEN ~c.num.isNaN /\ c.num.den = 1 /\ c.num.num >= 0
    ELSE c.str /= EmptyStr /\ \A i \in 1..Len(c.str) : IsDigit(c.str[i])
PlainInteger(c) == IF c.type = "number" THEN c.num.num ELSE DigitsValue(c.str)

RECURSIVE Replace8By2(_)
\* n with every decimal digit 8 replaced by 2
Replace8By2(n) ==
    LET d == IF n % 10 = 8 THEN 2 ELSE n % 10
    IN  IF n < 10 THEN d ELSE 10 * Replace8By2(n \div 10) + d

RECURSIVE HasDigit8(_)
HasDigit8(n) == n % 10 = 8 \/ (n >= 10 /\ HasDigit8(n \div 10))

C8_ThreeOrFourLetters ==
    (costPc /= "call" /\ ~NumericCost(cost).isNaN /\ NumericCost(cost).num >= 0
        /\ MathRound(NumericCost(cost)) <= 9999) =>
        Len(encoded) = IF MathRound(NumericCost(cost)) < 1000 THEN 3 ELSE 4

\* C9: decodeCost(encodeCost(n)) is n with every digit 8 replaced by 2 (so each
\* digit but 8 decodes to itself and 8 decodes to 2), and it is n exactly when
\* n has no digit 8.
C9_RoundTrip ==
    (costPc = "decoded" /\ IsPlainInteger(cost)) =>
        LET n == PlainInteger(cost)
        IN  /\ decoded = Num(Replace8By2(n), 1)
            /\ (decoded = Num(n, 1)) <=> ~HasDigit8(n)

\* C9 witness: 808 has been encoded and decoded, and came back as 202
C9_Witness ==
    costPc = "decoded" /\ cost = NumArg(Num(808, 1)) /\ decoded = Num(202, 1)

-----------------------------------------------------------------------------
(* Properties of getAlias, under SpecAlias *)

\* the static fallback entry for (field, key), or the empty string
FallbackEntry(field, key) ==
    IF HasHardcoded(field, key) THEN Hardcoded(field, key) ELSE EmptyStr

\* C1 as claimed: for a non-empty value the result is the alias of the matching
\* option when it carries one, else the static fallback entry for (category,
\* normalized value) when there is one, else the raw value.
C1_Precedence ==
    (aliasPc = "done" /\ aliasValue /= EmptyStr) =>
        LET key     == toLowerCase(trim(aliasValue))
            options == dropdownData[aliasField]
            found   == FindOption(options, key)
        IN  aliasResult =
                IF found /= 0 /\ options[found].alias /= EmptyStr
                THEN options[found].alias
                ELSE IF FallbackEntry(aliasField, key) /= EmptyStr
                     THEN FallbackEntry(aliasField, key)
                ELSE aliasValue

\* C2 as claimed: with an empty option list the static fallback table is still
\* consulted: "kurta" resolves to "KU" in productGroups, and a value without a
\* fallback entry is returned unchanged.
C2_FallbackWithoutOptions ==
    (aliasPc = "done" /\ aliasValue /= EmptyStr
        /\ Len(dropdownData[aliasField]) = 0) =>
        /\ (aliasField = "productGroups" /\ aliasValue = <<"k", "u", "r", "t", "a">>) =>
              aliasResult = <<"K", "U">>
        /\ aliasValue = <<"u", "n", "k", "n", "o", "w", "n", "-", "t", "h", "i", "n", "g">> => aliasResult = <<"u", "n", "k", "n", "o", "w", "n", "-", "t", "h", "i", "n", "g">>

-----------------------------------------------------------------------------
(* Properties of generateSKU, under SpecSKU *)

\* the order of the tokens as the identifier format states it
ClaimedTokenOrder == <<"first", "color", "size", "style", "location", "fabric",
                       "nature", "vendorCode", "cost">>

\* the raw form value behind a token
RawOf(f) == IF f = "first" THEN formData.productGroup ELSE formData[f]

\* the placeholder of each token
PlaceholderOf(f) ==
    CASE f = "size" -> <<"-", "-">>
      [] f = "vendorCode" -> <<"-", "-", "-", "-", "-", "-">>
      [] f = "cost" -> <<"-", "-", "-", "-">>
      [] OTHER -> <<"-", "-", "-">>

IsDashRun(s) == s /= EmptyStr /\ \A i \in 1..Len(s) : s[i] = "-"

\* the option category an aliased field is resolved in
CategoryOf ==
    [productGroup |-> "productGroups", productCategory |-> "productCategories",
     color |-> "colors", fabric |-> "fabrics", nature |-> "natures",
     location |-> "locations", vendorCode |-> "vendorCodes", size |-> "sizes"]

\* the positions of the tokens computed from field f
TokensOf(f) == {i \in 1..Len(skuParts) : SkuPartFields[i] = f}

\* the first option of the category whose value is v carries an alias
CarriesAlias(category, v) ==
    \E i \in 1..Len(dropdownData[category]) :
        /\ dropdownData[category][i].value = v
        /\ dropdownData[category][i].alias /= EmptyStr
        /\ \A j \in 1..(i - 1) :
              ~OptionMatches(dropdownData[category][j], toLowerCase(trim(v)))
AliasCarried(category, v) ==
    dropdownData[category][CHOOSE i \in 1..Len(dropdownData[category]) :
        dropdownData[category][i].value = v
        /\ dropdownData[category][i].alias /= EmptyStr].alias

\* C3 as claimed: the identifier is exactly nine tokens, one per field, in the
\* order first, color, size, style, location, fabric, nature, vendor, cost,
\* joined by single dashes.
C3_NineTokens ==
    /\ Len(skuParts) = 9
    /\ SkuPartFields = ClaimedTokenOrder
    /\ preview = join(skuParts, <<"-">>)

\* C4: the first token is category alias followed by group alias when both are
\* non-empty, else the raw product group, else "---"; with an empty category
\* and a product group set it is the raw product group.
C4_FirstToken ==
    LET categoryAlias == getAlias(dropdownData, "productCategories",
                                  formData.productCategory)
        groupAlias    == getAlias(dropdownData, "productGroups", formData.productGroup)
    IN  /\ skuParts[1] =
              IF categoryAlias /= EmptyStr /\ groupAlias /= EmptyStr
              THEN categoryAlias \o groupAlias
              ELSE IF formData.productGroup /= EmptyStr THEN formData.productGroup
              ELSE <<"-", "-", "-">>
        /\ (formData.productCategory = EmptyStr /\ formData.productGroup /= EmptyStr)
              => skuParts[1] = formData.productGroup
        /\ SubSeq(preview, 1, Len(skuParts[1]) + 1) = skuParts[1] \o <<"-">>

\* C4 witness: no category, product group "Kurta Set" (alias KT in the sheet):
\* the first token is the raw "Kurta Set"
C4_Witness ==
    /\ dropdownData = SheetData
    /\ formData.productCategory = EmptyStr
    /\ formData.productGroup = <<"K", "u", "r", "t", "a", " ", "S", "e", "t">>
    /\ getAlias(dropdownData, "productGroups", formData.productGroup) = <<"K", "T">>
    /\ skuParts[1] = <<"K", "u", "r", "t", "a", " ", "S", "e", "t">>

C6_AliasedAndRawFields ==
    /\ \A f \in {"color", "location", "fabric", "nature", "vendorCode"} :
          \A i \in TokensOf(f) :
              formData[f] /= EmptyStr =>
                  skuParts[i] = getAlias(dropdownData, CategoryOf[f], formData[f])
    /\ (formData.productCategory /= EmptyStr /\ formData.productGroup /= EmptyStr) =>
          skuParts[1] =
              getAlias(dropdownData, "productCategories", formData.productCategory)
              \o getAlias(dropdownData, "productGroups", formData.productGroup)
    /\ \A f \in {"size", "style"} : \A i \in TokensOf(f) :
          formData[f] /= EmptyStr => skuParts[i] = formData[f]
    /\ \A i \in TokensOf("cost") :
          formData.cost /= EmptyStr => skuParts[i] = encodeCost(StrArg(formData.cost))
    /\ CarriesAlias("vendorCodes", formData.vendorCode) =>
          \A i \in TokensOf("vendorCode") :
              skuParts[i] = AliasCarried("vendorCodes", formData.vendorCode)
    /\ CarriesAlias("sizes", formData.size) =>
          \A i \in TokensOf("size") : skuParts[i] = formData.size
    /\ \A f \in {"color", "size", "style", "location", "fabric", "nature",
                 "vendorCode", "cost"} : TokensOf(f) /= {}

\* C6 witness: vendor v01 (alias VN0001) and size XL (alias X) from the sheet:
\* the vendor token is VN0001, the size token XL
C6_Witness ==
    /\ dropdownData = SheetData
    /\ formData.vendorCode = <<"v", "0", "1">> /\ formData.size = <<"X", "L">>
    /\ formData.cost = <<"1", "2", ".", "5">>
    /\ CarriesAlias("vendorCodes", formData.vendorCode)
    /\ CarriesAlias("sizes", formData.size)
    /\ \A i \in TokensOf("vendorCode") : skuParts[i] = <<"V", "N", "0", "0", "0", "1">>
    /\ \A i \in TokensOf("size") : skuParts[i] = <<"X", "L">>
    /\ \A i \in TokensOf("cost") : skuParts[i] = <<"R", "Z">>

-----------------------------------------------------------------------------
(* Properties of the history filter, under SpecHistory *)

\* the record passes the global-query stage
PassesQuery(sub) ==
    \/ trim(searchQuery) = EmptyStr
    \/ \E i \in 1..Len(SearchFields) :
          includes(toLowerCase(FieldOf(sub, SearchFields[i])), toLowerCase(searchQuery))

\* the record passes every column filter that has a value
PassesColumns(sub) ==
    \A i \in 1..Len(FilterFields) :
        filters[FilterFields[i]] /= EmptyStr =>
            includes(toLowerCase(FieldOf(sub, FilterFields[i])),
                     toLowerCase(filters[FilterFields[i]]))

PassesBoth(sub) == PassesQuery(sub) /\ PassesColumns(sub)

\* C10: once the filter effect has run, the displayed list is exactly the
\* records that pass the global-query stage and every non-empty column filter
\* (case-insensitive substring), in input order; with no query and no column
\* filter it is the whole input.
C10_FilterIsConjunction ==
    ~effectPending =>
        /\ filteredSubmissions = SelectSeq(submissions, PassesBoth)
        /\ (searchQuery = EmptyStr /\ filters = NoFilters)
              => filteredSubmissions = submissions

\* C10 witness: query "ku" keeps Rec1 and Rec3, the colour filter then keeps
\* only Rec1
C10_Witness ==
    /\ ~effectPending
    /\ submissions = <<Rec1, Rec2, Rec3>>
    /\ searchQuery = <<"k", "u">>
    /\ filters.color = <<"r", "e">>
    /\ filters.vendorCode = <<"V", "0">>
    /\ filteredSubmissions = <<Rec1>>


-----------------------------------------------------------------------------
(* C11: the global-query stage *)

\* the columns the global search does not look at
OtherFields == {"size", "style", "location", "fabric", "nature", "vendorCode",
                "cost", "createdBy"}

\* the record carries the typed query in one of the columns f
ContainsQueryIn(sub, fs) ==
    \E f \in fs : includes(toLowerCase(FieldOf(sub, f)), toLowerCase(searchQuery))

\* the record carries the query, but in none of the four searched columns
QueryOnlyElsewhere(sub) ==
    /\ ContainsQueryIn(sub, OtherFields)
    /\ ~ContainsQueryIn(sub, {"sku", "productGroup", "productCategory", "color"})

Displayed == {filteredSubmissions[i] : i \in 1..Len(filteredSubmissions)}

\* C11: once the filter effect has run: a query that is empty or whitespace
\* only removes no record (with no column filter set the whole list is
\* shown); any other query lets a record through only if sku, productGroup,
\* productCategory or color contains it ignoring case, lets every such record
\* through when no column filter is set, and excludes a record that carries
\* the query only in another column
C11_GlobalQueryStage ==
    ~effectPending =>
        /\ (trim(searchQuery) = EmptyStr /\ filters = NoFilters)
               => filteredSubmissions = submissions
        /\ trim(searchQuery) /= EmptyStr =>
               \A i \in 1..Len(submissions) :
                   LET sub == submissions[i] IN
                   /\ sub \in Displayed =>
                          ContainsQueryIn(sub, {"sku", "productGroup",
                                                "productCategory", "color"})
                   /\ (filters = NoFilters
                          /\ ContainsQueryIn(sub, {"sku", "productGroup",
                                                   "productCategory", "color"}))
                          => sub \in Displayed
                   /\ QueryOnlyElsewhere(sub) => sub \notin Displayed

\* the query "xl" against three records: Rec1 carries it only as its size and
\* is dropped, Rec3 carries it in its sku and stays
C11_Witness ==
    /\ ~effectPending
    /\ searchQuery = <<"x", "l">>
    /\ filters = NoFilters
    /\ submissions = <<Rec1, Rec2, Rec3>>
    /\ QueryOnlyElsewhere(Rec1)
    /\ filteredSubmissions = <<Rec3>>

-----------------------------------------------------------------------------
(* C19, C20: what getAlias matches on, and the empty value *)

\* the option list of the looked-up category holds the option o
Lists(o) ==
    \E i \in 1..Len(dropdownData[aliasField]) : dropdownData[aliasField][i] = o

\* v is o's value or o's label, up to case and surrounding blanks
SpellingOf(v, o) ==
    \/ toLowerCase(trim(v)) = toLowerCase(trim(o.value))
    \/ toLowerCase(trim(v)) = toLowerCase(trim(o.label))

\* C19: in a category that lists {value: "kurta-set", label: "Kurta Set",
\* alias: "KT"}, getAlias returns "KT" for the value, for the label, and for
\* either in another case or with blanks around it
C19_MatchesValueOrLabel ==
    (aliasPc = "done" /\ Lists(KurtaSetOption)
        /\ SpellingOf(aliasValue, KurtaSetOption))
        => aliasResult = KurtaSetOption.alias

\* the label, in mixed case after a blank, looked up among the sizes, where no
\* hardcoded entry could supply the alias
C19_Witness ==
    /\ aliasPc = "done"
    /\ aliasField = "sizes"
    /\ Lists(KurtaSetOption)
    /\ aliasValue = <<" ", "k", "u", "r", "t", "a", " ", "S", "E", "T">>
    /\ aliasResult = <<"K", "T">>

\* C20: getAlias of the empty string is the empty string, in every category
\* and whatever options the category lists
C20_EmptyValue ==
    (aliasPc = "done" /\ aliasValue = EmptyStr) => aliasResult = EmptyStr

\* the empty string looked up in a category that lists an option whose
\* trimmed value is empty and which carries an alias
C20_Witness ==
    /\ aliasPc = "done"
    /\ aliasValue = EmptyStr
    /\ Lists(BlankOption)
    /\ aliasField = "productGroups"
    /\ aliasResult = EmptyStr

-----------------------------------------------------------------------------
(* C16, C17, C18: the option lists fetchDropdownData builds, under SpecCanon *)

\* the object entry carries a non-empty string under the key
HasText(item, key) == key \in DOMAIN item.fields /\ item.fields[key] /= EmptyStr

\* the option the canonicalization rules assign to a string or object entry;
\* a field counts as present when it holds a non-empty string
ClaimedOption(item) ==
    IF item.kind = "string" THEN [value |-> item.str, label |-> item.str, alias |-> NoAlias]
    ELSE [value |-> IF HasText(item, "value") THEN item.fields.value
                    ELSE IF HasText(item, "label") THEN item.fields.label
                    ELSE EmptyStr,
          label |-> IF HasText(item, "label") THEN item.fields.label
                    ELSE IF HasText(item, "value") THEN item.fields.value
                    ELSE EmptyStr,
          alias |-> IF "alias" \in DOMAIN item.fields THEN item.fields.alias
                    ELSE NoAlias]

\* the entry is a string or an object, and its resolved value is not empty
ClaimedKept(item) ==
    /\ item.kind \in {"string", "object"}
    /\ ClaimedOption(item).value /= EmptyStr

RECURSIVE ClaimedOptions(_)
\* the kept entries' options, in source order, one per kept entry
ClaimedOptions(items) ==
    IF items = << >> THEN << >>
    ELSE IF ClaimedKept(Head(items))
         THEN <<ClaimedOption(Head(items))>> \o ClaimedOptions(Tail(items))
    ELSE ClaimedOptions(Tail(items))

\* C16: the list built from an array of raw entries holds, in source order and
\* with duplicates, one option per entry that is a string or an object with a
\* non-empty resolved value: {s, s} for a string s; for an object its value,
\* else its label, as value, its label, else its value, as label, and its
\* alias as it came. Every option of every list has a non-empty value.
C16_CanonicalOptions ==
    canonPc /= "fetch" =>
        \A c \in Categories :
            /\ rawData[CategoryKeys[c][1]].kind = "array" =>
                   fetched[c] = ClaimedOptions(rawData[CategoryKeys[c][1]].items)
            /\ \A i \in 1..Len(fetched[c]) : fetched[c][i].value /= EmptyStr

\* an object with a label and an alias but no value, followed by a number:
\* one option, valued by the label
C16_Witness ==
    /\ canonPc = "fetched"
    /\ rawData["Color"] =
           RawArray(<<RawObject([label |-> <<"T", "w", "o">>, alias |-> <<"A", "2">>]), RawNumber(38)>>)
    /\ fetched.colors = <<Option(<<"T", "w", "o">>, <<"T", "w", "o">>, <<"A", "2">>)>>

\* the payload holds nothing under the key: the key is missing, or its value
\* is null or the empty string
NoValue(x) == x.kind \in {"undefined", "null"} \/ x = RawString(EmptyStr)

\* the value the key resolution rule picks for a category: the singular key's
\* when there is one, else the plural key's
Found(c) ==
    IF ~NoValue(rawData[CategoryKeys[c][1]]) THEN rawData[CategoryKeys[c][1]]
    ELSE rawData[CategoryKeys[c][2]]

\* C17: each category's list is built from the value under its singular key
\* and, only when there is none, from the value under its plural key; it is
\* empty when neither key has a value or the value found is not an array
C17_KeyResolution ==
    canonPc /= "fetch" =>
        \A c \in Categories :
            /\ Found(c).kind = "array" => fetched[c] = transformData(Found(c))
            /\ Found(c).kind /= "array" => fetched[c] = << >>
            /\ (NoValue(rawData[CategoryKeys[c][1]])
                   /\ NoValue(rawData[CategoryKeys[c][2]])) => fetched[c] = << >>

\* no "Fabric" key, two entries under "Fabrics": the list is built from them
C17_Witness ==
    /\ canonPc = "fetched"
    /\ rawData["Fabric"] = Undefined
    /\ rawData["Fabrics"].kind = "array"
    /\ Len(fetched.fabrics) = 2
    /\ fetched.fabrics[1] = Option(<<"W", "o", "o", "l">>, <<"W", "o", "o", "l">>, NoAlias)

\* C18: transformData applied to the lists it returned returns the same lists:
\* same length, same order, same value, label and alias at every position
C18_Idempotent ==
    canonPc = "again" =>
        \A c \in Categories :
            /\ Len(refetched[c]) = Len(fetched[c])
            /\ \A i \in 1..Len(fetched[c]) :
                  /\ refetched[c][i].value = fetched[c][i].value
                  /\ refetched[c][i].label = fetched[c][i].label
                  /\ refetched[c][i].alias = fetched[c][i].alias

\* a list of two options whose value and label differ, one with an alias, has
\* been transformed again
C18_Witness ==
    /\ canonPc = "again"
    /\ fetched.sizes = <<Option(<<"v", "1">>, <<"O", "n", "e">>, <<"A", "1">>), Option(<<"v", "1">>, <<"O", "n", "e">>, NoAlias)>>
    /\ refetched.sizes = fetched.sizes

-----------------------------------------------------------------------------
(* C14, C15: the numbers getNextStyleNumber issues, under SpecStyle *)

\* the number a stored or returned decimal string denotes
CounterOf(s) == DigitsValue(s)

IsDecimal(s) == s /= EmptyStr /\ \A i \in 1..Len(s) : IsDigit(s[i])

\* the number a call that read `item` is to issue: 100 when nothing is stored
\* or the stored number plus 1 is below 100, else the stored number plus 1
ClaimedNumber(item) ==
    IF ~item.has \/ CounterOf(item.str) + 1 < 100 THEN 100
    ELSE CounterOf(item.str) + 1

\* C14: every call stores and returns the claimed number for the item it read,
\* the returned string being its decimal digits, at least three of them; the
\* numbers issued are at least 100, and as long as no call has overlapped
\* another each is greater than the one issued before it
C14_NextStyleNumber ==
    /\ \A i \in 1..Len(issued) :
          LET e == issued[i] IN
          /\ IsDecimal(e.number) /\ Len(e.number) >= 3
          /\ CounterOf(e.number) = ClaimedNumber(e.read)
          /\ e.stored.has /\ IsDecimal(e.stored.str)
          /\ CounterOf(e.stored.str) = ClaimedNumber(e.read)
          /\ CounterOf(e.number) >= 100
    /\ ~overlapped =>
          \A i \in 1..(Len(issued) - 1) :
              CounterOf(issued[i].number) < CounterOf(issued[i + 1].number)

\* one session, a stored "7" from an older build: 100, then 101
C14_Witness ==
    /\ ~overlapped
    /\ Len(issued) = 2
    /\ issued[1].session = 1 /\ issued[2].session = 1
    /\ issued[1].read = Item(<<"7">>)
    /\ issued[1].number = <<"1", "0", "0">>
    /\ issued[2].number = <<"1", "0", "1">>
    /\ lastStyleNumber = Item(<<"1", "0", "1">>)

\* C15: as long as no call has read the counter while another call was between
\* its read and its write, no two calls have returned the same number
C15_NoDuplicateWithoutOverlap ==
    ~overlapped =>
        \A i, j \in 1..Len(issued) : i /= j => issued[i].number /= issued[j].number

\* two sessions read the same stored "100" before either wrote: both return
\* 101
C15_Witness ==
    /\ overlapped
    /\ Len(issued) = 2
    /\ issued[1].session /= issued[2].session
    /\ issued[1].read = Item(<<"1", "0", "0">>) /\ issued[2].read = Item(<<"1", "0", "0">>)
    /\ issued[1].number = <<"1", "0", "1">>
    /\ issued[2].number = <<"1", "0", "1">>

-----------------------------------------------------------------------------
(* C12, C13: validation and the submit attempt, under SpecForm *)

\* the display names of the ten fields, in the order of FieldNames
DisplayNames == <<"Product Group", "Product Category", "Color", "Size",
                  "Style Number", "Location", "Fabric", "Nature", "Vendor Code",
                  "Cost">>

\* all ten fields of the form hold a non-empty string
AllFilled == \A i \in 1..Len(FieldNames) : formData[FieldNames[i]] /= EmptyStr

RECURSIVE EmptyFieldNames(_)
\* the display names of the empty fields among the fields i, i + 1, ...
EmptyFieldNames(i) ==
    IF i > Len(FieldNames) THEN << >>
    ELSE IF formData[FieldNames[i]] = EmptyStr
         THEN <<DisplayNames[i]>> \o EmptyFieldNames(i + 1)
    ELSE EmptyFieldNames(i + 1)

\* C12: in every state of the form isFormComplete holds exactly when all ten
\* fields are non-empty strings, getMissingFields is the list of the display
\* names of exactly the empty fields in field order, isFormComplete holds
\* exactly when that list is empty, and a field holding only a blank counts as
\* filled
C12_CompleteIffNothingMissing ==
    /\ isFormComplete(formData) <=> AllFilled
    /\ getMissingFields(formData) = EmptyFieldNames(1)
    /\ isFormComplete(formData) <=> (getMissingFields(formData) = << >>)
    /\ \A i \in 1..Len(FieldNames) :
          (formData[FieldNames[i]] /= EmptyStr /\ trim(formData[FieldNames[i]]) = EmptyStr)
              => \A j \in 1..Len(getMissingFields(formData)) :
                     getMissingFields(formData)[j] /= DisplayNames[i]

\* a submit attempt on a form with a product group, a cost and a blank as
\* style number: the seven other fields are listed, the style number is not
C12_Witness ==
    /\ hasTriedSubmit
    /\ formData.productGroup = <<"k", "u", "r", "t", "a">> /\ formData.cost = <<"5", "0", "0">>
    /\ formData.style = <<" ">>
    /\ ~isFormComplete(formData)
    /\ getMissingFields(formData) =
           <<"Product Category", "Color", "Size", "Location", "Fabric", "Nature",
             "Vendor Code">>

\* the payload of a submitSKU call carries the ten fields of the form
CarriesForm(p) ==
    \A i \in 1..Len(FieldNames) : p[FieldNames[i]] = formData[FieldNames[i]]

\* C13: a step that calls submitSKU starts in a state in which all ten fields
\* are non-empty and a user is logged in, and sends those ten fields; a click
\* on the submit button while a field is empty calls nothing, leaves every
\* field as it is and leaves the success modal closed
C13_SubmitOnlyWhenComplete ==
    [][ /\ sent' /= sent =>
              /\ AllFilled
              /\ currentUser /= NoUser
              /\ Len(sent') = Len(sent) + 1
              /\ CarriesForm(sent'[Len(sent')])
              /\ sent'[Len(sent')].username = currentUser
        /\ (handleSubmit /\ ~AllFilled) =>
              /\ sent' = sent
              /\ pending' = pending
              /\ formData' = formData
              /\ ~showSuccessModal'
              /\ isSubmitting' = isSubmitting
      ]_vars

\* the button has been pressed by a logged-in user on a form that lacks only
\* the cost: nothing was sent, the modal is closed
C13_Witness ==
    /\ hasTriedSubmit
    /\ currentUser /= NoUser
    /\ formData.cost = EmptyStr
    /\ \A i \in 1..(Len(FieldNames) - 1) : formData[FieldNames[i]] /= EmptyStr
    /\ sent = << >>
    /\ pending = << >>
    /\ ~showSuccessModal
    /\ formData.style = InitialFormData.style

-----------------------------------------------------------------------------
(* Error handling of the cost cipher, under SpecCost *)

\* a cost argument parses as a number: a number other than NaN, or a string
\* that, after leading white space and an optional sign, starts with a digit
\* or with a point followed by a digit
ParsesAsNumber(c) ==
    IF c.type = "number" THEN ~c.num.isNaN
    ELSE LET t    == trimStart(c.str)
             body == IF t /= EmptyStr /\ Head(t) \in {"+", "-"} THEN Tail(t) ELSE t
         IN  /\ body /= EmptyStr
             /\ \/ IsDigit(body[1])
                \/ body[1] = "." /\ Len(body) >= 2 /\ IsDigit(body[2])

\* C21: encodeCost returns a value for every argument: the placeholder "---"
\* when the argument does not parse as a number, and otherwise a string made
\* only of letters of the cipher table.
C21_EncodeNeverRaises ==
    costPc /= "call" =>
        IF ParsesAsNumber(cost)
        THEN \A i \in 1..Len(encoded) : \E d \in 1..10 : encoded[i] = CipherLetters[d]
        ELSE encoded = <<"-", "-", "-">>

\* C21 witness: an unparsable string has been encoded as the placeholder
C21_Witness ==
    costPc = "encoded" /\ cost = StrArg(<<"x", "5">>) /\ encoded = <<"-", "-", "-">>

\* the digit the claim assigns to a character of a code
ClaimedDigit(ch) ==
    CASE ch \in {"C", "c"} -> 0
      [] ch \in {"R", "r"} -> 1
      [] ch \in {"A", "a"} -> 2
      [] ch \in {"Z", "z"} -> 3
      [] ch \in {"Y", "y"} -> 4
      [] ch \in {"W", "w"} -> 5
      [] ch \in {"O", "o"} -> 6
      [] ch \in {"M", "m"} -> 7
      [] ch \in {"N", "n"} -> 9
      [] OTHER -> 0

RECURSIVE ClaimedValue(_)
\* the base-10 value of the digits the claim assigns to the characters of s
ClaimedValue(s) ==
    IF s = EmptyStr THEN 0
    ELSE 10 * ClaimedValue(SubSeq(s, 1, Len(s) - 1)) + ClaimedDigit(s[Len(s)])

\* C22 as claimed: decodeCost returns an integer for every string, the empty
\* string included: the base-10 value of the digits that the letters
\* C,R,A,Z,Y,W,O,M,N of either case (0,1,2,3,4,5,6,7,9) and every other
\* character (0) stand for; the result has no digit 8.
C22_DecodeReturnsInteger ==
    costPc = "redecoded" =>
        /\ ~decoded.isNaN
        /\ decoded = Num(ClaimedValue(codeArg), 1)
        /\ ~HasDigit8(decoded.num)

-----------------------------------------------------------------------------
(* C23: records that lack fields, under SpecHistory *)

\* the columns the record does not carry
MissingFields(sub) == {f \in DOMAIN filters : f \notin DOMAIN sub}

\* a column the record carries contains the text, ignoring case
CarriesIn(sub, f, text) ==
    f \in DOMAIN sub /\ includes(toLowerCase(sub[f]), toLowerCase(text))

\* what the claim shows of a record: no filter is set on a column it lacks,
\* the columns it carries pass their filters, and a query that is not blank
\* is found in a searched column it carries
ShownWithMissingAsEmpty(sub) ==
    /\ \A f \in MissingFields(sub) : filters[f] = EmptyStr
    /\ \A f \in DOMAIN sub \cap DOMAIN filters :
          filters[f] /= EmptyStr => CarriesIn(sub, f, filters[f])
    /\ trim(searchQuery) /= EmptyStr =>
          \E f \in {"sku", "productGroup", "productCategory", "color"} :
              CarriesIn(sub, f, searchQuery)

\* C23: once the filter effect has run, a record that lacks fields is shown
\* exactly when every column filter on a field it lacks is empty, no field it
\* lacks is counted as containing the query, and the fields it carries pass:
\* a missing field compares as the empty string.
C23_MissingFieldIsEmpty ==
    ~effectPending =>
        \A i \in 1..Len(submissions) :
            MissingFields(submissions[i]) /= {} =>
                (submissions[i] \in Displayed <=> ShownWithMissingAsEmpty(submissions[i]))

\* C23 witness: with the cost filter "50" the record without a cost is dropped
\* and the record with cost 500 stays
C23_Witness ==
    /\ ~effectPending
    /\ submissions = <<Rec1, Rec2, Rec3>>
    /\ "cost" \in MissingFields(Rec3)
    /\ filters = [NoFilters EXCEPT !.cost = <<"5", "0">>]
    /\ filteredSubmissions = <<Rec1>>

-----------------------------------------------------------------------------
(* C26: the displayed list between an update and the filter effect *)

\* C26 as claimed: whenever the page is not loading, the displayed list is the
\* records of `submissions` that pass the current query and the current column
\* filters, in order.
C26_DisplayedIsFiltered ==
    ~historyLoading => filteredSubmissions = SelectSeq(submissions, PassesBoth)

-----------------------------------------------------------------------------
(* C25: generateSKU as called by the live preview, under SpecSKU *)

-----------------------------------------------------------------------------
(* C24, C27, C28, C30: the submit flow, under SpecForm *)

\* the step continues handleSubmit after the i-th call settled with `outcome`
Continues(i, outcome) ==
    /\ i \in 1..Len(pending)
    /\ pending[i].promise = outcome
    /\ Len(pending') = Len(pending) - 1
    /\ \A j \in 1..Len(pending') : pending'[j] = pending[IF j < i THEN j ELSE j + 1]

\* the nine fields other than style
OtherThanStyle == {FieldNames[i] : i \in 1..Len(FieldNames)} \ {"style"}

\* C24: the step that continues handleSubmit after a resolved submitSKU leaves
\* the nine fields other than style empty, style the number the persisted
\* counter issues next (and the counter at or past it), hasTriedSubmit false,
\* and the success modal open on the identifier of the call, which was sent.
C24_ResetAfterSuccess ==
    [][ \A i \in 1..Len(pending) : Continues(i, "resolved") =>
            /\ \A f \in OtherThanStyle : formData'[f] = EmptyStr
            /\ IsDecimal(formData'.style)
            /\ CounterOf(formData'.style) = ClaimedNumber(lastStyleNumber)
            /\ lastStyleNumber'.has
            /\ CounterOf(lastStyleNumber'.str) >= CounterOf(formData'.style)
            /\ ~hasTriedSubmit'
            /\ showSuccessModal'
            /\ generatedSKU' = pending[i].call.sku
            /\ \E j \in 1..Len(sent) : sent[j] = pending[i].call
      ]_vars

\* C24 witness: the modal shows the identifier of the one record sent, and the
\* form is empty again with a style number other than the first
C24_Witness ==
    /\ showSuccessModal
    /\ Len(sent) = 1 /\ pending = << >>
    /\ generatedSKU = sent[1].sku /\ generatedSKU /= EmptyStr
    /\ \A f \in OtherThanStyle : formData[f] = EmptyStr
    /\ formData.style /= sent[1].style
    /\ IsDecimal(formData.style)
    /\ ~hasTriedSubmit

\* C27 as claimed: the persisted counter moves only in the step that continues
\* a resolved submission, and by exactly one there, so that the style number of
\* the next record is the one after the style number the form was created
\* with; edits, renders, rejected and refused submit attempts leave it alone.
C27_CounterAdvancesOncePerRecord ==
    [][ IF \E i \in 1..Len(pending) : Continues(i, "resolved")
        THEN /\ CounterOf(lastStyleNumber'.str) = CounterOf(lastStyleNumber.str) + 1
             /\ Len(sent) = 1 =>
                   CounterOf(formData'.style) = CounterOf(InitialFormData.style) + 1
        ELSE lastStyleNumber' = lastStyleNumber
      ]_vars

\* C28: the step that continues handleSubmit after a rejected submitSKU changes
\* none of the ten fields, leaves the success modal closed and generatedSKU as
\* it was; after that step and after the step that continues a resolved call
\* isSubmitting is false, and isSubmitting is set only by the step that calls
\* submitSKU.
C28_RejectionLeavesForm ==
    [][ /\ \A i \in 1..Len(pending) : Continues(i, "rejected") =>
              /\ \A k \in 1..Len(FieldNames) :
                    formData'[FieldNames[k]] = formData[FieldNames[k]]
              /\ ~showSuccessModal /\ ~showSuccessModal'
              /\ generatedSKU' = generatedSKU
              /\ isSubmitting /\ ~isSubmitting'
        /\ \A i \in 1..Len(pending) : Continues(i, "resolved") =>
              isSubmitting /\ ~isSubmitting'
        /\ (~isSubmitting /\ isSubmitting') => Len(sent') = Len(sent) + 1
      ]_vars

\* C28 witness: a rejected submission: the error toast, the complete form as
\* it was sent, the submit control enabled again
C28_Witness ==
    /\ toast = "Failed to submit SKU"
    /\ ~isSubmitting /\ pending = << >> /\ Len(sent) = 1
    /\ ~showSuccessModal /\ generatedSKU = EmptyStr
    /\ AllFilled /\ CarriesForm(sent[1])

\* C30: in every state a step leads to at most one submitSKU call is awaited,
\* and isSubmitting is true exactly while one is; a step that calls submitSKU
\* starts with none awaited and calls it once; and the form a resolved call
\* leaves behind is not complete, so it is not sent again as it is.
C30_OneSubmissionInFlight ==
    [][ /\ Len(pending') <= 1
        /\ isSubmitting' <=> pending' /= << >>
        /\ sent' /= sent =>
              /\ pending = << >> /\ ~isSubmitting
              /\ Len(sent') = Len(sent) + 1
              /\ Len(pending') = 1 /\ pending'[1].call = sent'[Len(sent')]
        /\ (\E i \in 1..Len(pending) : Continues(i, "resolved")) => ~AllFilled'
      ]_vars

\* C30 witness: one call is in flight, the submit control is disabled, and
\* the user has gone on editing the form that was sent
C30_Witness ==
    /\ isSubmitting
    /\ Len(pending) = 1 /\ pending[1].promise = "pending"
    /\ Len(sent) = 1
    /\ ~CarriesForm(sent[1])

-----------------------------------------------------------------------------
(* C29: one call of submitSKU, under SpecSubmitSKU *)

Settled == promise \in {"resolved", "rejected"}

\* the step is the callback of a 100 ms timer, the iframe's error event (an
\* event that sets no timer), the callback of the 5000 ms timer
LoadTimerFired == loadTimers' < loadTimers
ErrorFired == iframeEvents' > iframeEvents /\ loadTimers' = loadTimers
TimeoutFired == timeoutPending /\ ~timeoutPending'

\* C29: a call that has been made settles eventually and at most once: a
\* pending promise is resolved by the callback of the 100 ms timer that a load
\* event set, rejected by an error event, resolved by the 5000 ms timer (which
\* is what settles it when the iframe fires no event), and by nothing else; a
\* settled promise never changes; and once it is settled and no timer is
\* left, document.body contains neither the form nor the iframe.
C29_SettlesOnce ==
    /\ [](settled <= 1 /\ (Settled <=> settled = 1))
    /\ []((Settled /\ loadTimers = 0 /\ ~timeoutPending) => attached = {})
    /\ [][ /\ Settled => promise' = promise
           /\ promise = "pending" =>
                 /\ LoadTimerFired => promise' = "resolved"
                 /\ ErrorFired => promise' = "rejected"
                 /\ TimeoutFired => promise' = "resolved"
                 /\ promise' /= promise =>
                       LoadTimerFired \/ ErrorFired \/ TimeoutFired
           /\ (TimeoutFired /\ iframeEvents = 0) =>
                 promise = "pending" /\ promise' = "resolved"
         ]_vars
    /\ (promise = "pending") ~> Settled
    /\ (promise = "pending") ~> (Settled /\ attached = {} /\ loadTimers = 0 /\ ~timeoutPending)

\* C29 witness: the iframe fired no event, the 5000 ms timer resolved the
\* promise and detached the form and the iframe
C29_Witness ==
    /\ promise = "resolved" /\ settled = 1
    /\ iframeEvents = 0
    /\ ~timeoutPending /\ loadTimers = 0
    /\ attached = {}
    /\ inputs /= << >>

=============================================================================
